---- MODULE Spec2Model ----
(***************************************************************************)
(* Model of the signal pages of the MAG7 lakehouse dashboard:              *)
(*   - build_equity_curve   (pages/8_Research_Playground.py)               *)
(*   - the S0 state rule    (pages/1_Overview.py, shown rule of the mart)  *)
(*   - entry detection and evidence summary                                *)
(*                          (pages/2_Signal_by_Momentum_Reversion.py)      *)
(*   - the per-ticker summary (pages/8_Research_Playground.py)             *)
(*   - the EARLY/LATE pooling (pages/6_Research_Validation.py)             *)
(*   - lagged sentiment and its correlations                               *)
(*                          (pages/7_Sentiment_Research.py,                *)
(*                           pages/04_sentiment_vs_returns.py)             *)
(*   - required-column handling (page 2, pages/3_Ticker_Deep_Dive.py,      *)
(*                           extractors/stocks_extractor.py)               *)
(*   - the bucket assignment behind regime_bucket_10 / zscore_bucket_10    *)
(*   - the sentiment deciles (pages/7_Sentiment_Research.py)               *)
(*   - the curves of the selected tickers (pages/8_Research_Playground.py) *)
(*   - the blocks of the shaded chart                                      *)
(*                          (pages/2_Signal_by_Momentum_Reversion.py)      *)
(*   - the daily job        (orchestration/orchestration/assets.py)        *)
(* Each part has its own specification; the variables of the other parts   *)
(* stay at their idle values there.                                        *)
(***************************************************************************)
EXTENDS Integers, Sequences, FiniteSets, Bags, TLC

VARIABLES
    \* ---- build_equity_curve ----
    curve_pc,      \* "idle" | "loop" (inside the for loop) | "done" (returned)
    mode,          \* the mode argument
    horizon,       \* the horizon argument
    first_dow,     \* weekday (0 = Monday .. 4 = Friday) of the first row's trade_date
    df,            \* rows read so far: [trade_date, core_signal_state, ret]
    cooldown,      \* the local counter of the no-overlap branch
    cd_seen,       \* history: value of cooldown when each row was reached
    is_trade,      \* tmp["is_trade"]
    step,          \* tmp["step"], in hundredths (100 is the multiplier 1.0)
    equity,        \* tmp["equity"], one value per row once returned
    \* ---- S0 rule ----
    s0_first,      \* first row of the s0 mart with its state, <<>> before
    s0_second,     \* second row of the s0 mart with its state, <<>> before
    \* ---- S1 page (2_Signal_by_Momentum_Reversion.py) ----
    page_pc,       \* "idle" | "loaded" | "filled" | "entries" | "kpi" | "charted" | "summary"
    s1_feed,       \* the rows load_s1_core_history returned, in date order
    hist,          \* the page's hist frame
    prev_state,    \* hist["prev_state"]
    is_entry,      \* hist["is_entry"]
    entries,       \* hist[hist["is_entry"]]
    kpi,           \* values handed to kpi_row
    basis,         \* the chosen evidence basis
    summary,       \* _evidence_summary(evidence_df)
    blocks,        \* the blocks _contiguous_blocks(hist) yielded to the chart
    \* ---- per-ticker summary (8_Research_Playground.py) ----
    play_pc,       \* "idle" | "loaded" | "summarised"
    events,        \* the events frame: [ticker, core_signal_state, ret]
    ticker_summary, \* the summary frame, one row per ticker
    \* ---- EARLY/LATE pooling (6_Research_Validation.py) ----
    pool_pc,       \* "idle" | "loaded" | "summarised" | "raised"
    pool,          \* the pool frame: [ticker, period_label, avg_forward_return, n_obs]
    pool_summary,  \* the summary frame, one row per period label
    \* ---- lagged sentiment (7_Sentiment_Research.py, 04_sentiment_vs_returns.py) ----
    sent_pc,       \* "idle" | "loaded" | "lagged" | "done"
    lag,           \* the lag slider
    sent_feed,     \* the loaded frame: [ticker, trade_date, sentiment, ret, regime_label]
    sent_view,     \* page 7: view after sort and groupby-shift, with sentiment_lagged
    corr7,         \* page 7: the corr frame
    early_late,    \* page 7: the early_late frame
    corr04,        \* page 04: compute_lagged_corr(df, ...)
    \* ---- required columns ----
    schema_pc,     \* "idle" | "called" | "stopped" | "continued"
    schema_op,     \* which operation received the frame
    schema_cols,   \* columns of the frame received
    schema_out,    \* columns of the frame the operation goes on with
    schema_filled, \* columns the operation created itself, with the value it put
    \* ---- bucket assignment ----
    bk_pc,         \* "idle" | "run"
    bk_W,          \* minimum number of observations
    bk_cap,        \* cap of the rolling window (0: expanding)
    bk_series,     \* the ticker's observations in date order
    bk_out,        \* the buckets assigned to each date
    \* ---- curves of the selected tickers (8_Research_Playground.py) ----
    plot_pc,       \* "idle" | "loop" (inside the for loop over the tickers) | "done"
    plot_h,        \* the horizon of the sidebar
    plot_events,   \* the events frame: [ticker, core_signal_state, ret]
    plot_todo,     \* the selected tickers the loop has not reached yet
    plot_cooldown, \* value of the loop counter when the latest call returned
    plot_curves,   \* the frames returned so far: [ticker, is_trade, step, equity]
    \* ---- daily job (orchestration/assets.py) ----
    pipe_status,   \* per asset: "pending" | "running" | "ok" | "failed" | "skipped"
    pipe_out,      \* per extractor: the value its asset returned, "none" before
    pipe_rc,       \* per command asset: the exit code of its command, -1 before
    pipe_started   \* the assets in the order in which their steps started

curve_vars == <<curve_pc, mode, horizon, first_dow, df, cooldown, cd_seen,
                is_trade, step, equity>>
s0_vars == <<s0_first, s0_second>>
page_vars == <<page_pc, s1_feed, hist, prev_state, is_entry, entries, kpi,
               basis, summary, blocks>>
play_vars == <<play_pc, events, ticker_summary>>
pool_vars == <<pool_pc, pool, pool_summary>>
sent_vars == <<sent_pc, lag, sent_feed, sent_view, corr7, early_late, corr04>>
schema_vars == <<schema_pc, schema_op, schema_cols, schema_out, schema_filled>>
bucket_vars == <<bk_pc, bk_W, bk_cap, bk_series, bk_out>>
plot_vars == <<plot_pc, plot_h, plot_events, plot_todo, plot_cooldown, plot_curves>>
pipe_vars == <<pipe_status, pipe_out, pipe_rc, pipe_started>>
job_vars == <<plot_vars, pipe_vars>>
ext_vars == <<pool_vars, sent_vars, schema_vars, bucket_vars, job_vars>>
vars == <<curve_vars, s0_vars, page_vars, play_vars, ext_vars>>

\* ------------------------------------------------------------------------
\* Nullable numbers: <<>> is null / NaN, <<v>> is the number v.
\* ------------------------------------------------------------------------
Null == <<>>
Num(v) == <<v>>
IsNull(x) == x = <<>>
Val(x) == x[1]

\* ------------------------------------------------------------------------
\* Bounds
\* ------------------------------------------------------------------------
MaxLen == 5
MaxH == 3

\* ========================================================================
\* build_equity_curve
\* ========================================================================
CurveStates == {"LONG_SETUP", "NEUTRAL"}
\* forward returns of the feed, in hundredths; null where no future price
CurveRets == {Null, Num(0), Num(1), Num(2)}

\* the series starts on a Monday or on a Thursday
FirstDows == {0, 3}

\* trade_date of the k-th row (0-based): business days, weekends skipped
TradeDate(dow0, k) == (dow0 + k) + 2 * ((dow0 + k) \div 5)

\* pd.to_numeric(..., errors="coerce").fillna(0.0)
FillNa0(r) == IF IsNull(r) THEN 0 ELSE Val(r)

\* `if cooldown > 0` : the row cannot open a trade
Blocked_Mut(c) == c > 1
Blocked(c) == c > 0

\* `cooldown -= 1` on a row that cannot open a trade
Decremented_Mut(c) == c
Decremented(c) == c - 1

\* `if state == "LONG_SETUP"` : the row opens a trade (r is its return)
OpensTrade_Mut(state, r) == state = "LONG_SETUP" /\ r # 0
OpensTrade(state, r) == state = "LONG_SETUP"

\* `cooldown = int(horizon)` on opening a trade
CooldownOnOpen_Mut(h) == 0
CooldownOnOpen(h) == h

\* the multiplier 1.0 + r, in hundredths
Mult(r) == 100 + r

\* Equity values are products of multipliers.  A product is kept as the bag
\* of its factors other than 1.0 (the integer product of MaxLen factors in
\* hundredths does not fit TLC's integers); for the multipliers 1.01 and
\* 1.02 two products are equal exactly when the bags are (101 is prime and
\* 17 divides 102 only).
One == EmptyBag
Times(e, m) == IF m = 100 THEN e ELSE e (+) SetToBag({m})

\* tmp["step"].cumprod()
RECURSIVE CumProd(_)
CumProd(s) ==
    IF s = <<>> THEN <<>>
    ELSE LET front == CumProd(SubSeq(s, 1, Len(s) - 1))
             prev == IF front = <<>> THEN One ELSE front[Len(front)]
         IN Append(front, Times(prev, s[Len(s)]))

CurveIdle ==
    /\ curve_pc = "idle" /\ mode = "none" /\ horizon = 0 /\ first_dow = 0
    /\ df = <<>> /\ cooldown = 0 /\ cd_seen = <<>>
    /\ is_trade = <<>> /\ step = <<>> /\ equity = <<>>

S0Idle == s0_first = <<>> /\ s0_second = <<>>

PageIdle ==
    /\ page_pc = "idle" /\ s1_feed = <<>> /\ hist = <<>> /\ prev_state = <<>>
    /\ is_entry = <<>> /\ entries = <<>> /\ kpi = <<>> /\ basis = "none"
    /\ summary = <<>> /\ blocks = <<>>

PlayIdle == play_pc = "idle" /\ events = <<>> /\ ticker_summary = <<>>

PoolIdle == pool_pc = "idle" /\ pool = <<>> /\ pool_summary = <<>>

SentIdle ==
    /\ sent_pc = "idle" /\ lag = 0 /\ sent_feed = <<>> /\ sent_view = <<>>
    /\ corr7 = <<>> /\ early_late = <<>> /\ corr04 = <<>>

SchemaIdle ==
    /\ schema_pc = "idle" /\ schema_op = "none" /\ schema_cols = <<>>
    /\ schema_out = {} /\ schema_filled = {}

BucketIdle ==
    /\ bk_pc = "idle" /\ bk_W = 0 /\ bk_cap = 0 /\ bk_series = <<>>
    /\ bk_out = <<>>

PlotIdle ==
    /\ plot_pc = "idle" /\ plot_h = 0 /\ plot_events = <<>> /\ plot_todo = <<>>
    /\ plot_cooldown = 0 /\ plot_curves = <<>>

PipeIdle ==
    /\ pipe_status = <<>> /\ pipe_out = <<>> /\ pipe_rc = <<>>
    /\ pipe_started = <<>>

JobIdle == PlotIdle /\ PipeIdle

ExtIdle == PoolIdle /\ SentIdle /\ SchemaIdle /\ BucketIdle /\ JobIdle

\* the call build_equity_curve(df_t, ret_col, "long_setup_no_overlap", horizon)
InitNoOverlap ==
    /\ curve_pc = "loop"
    /\ mode = "long_setup_no_overlap"
    /\ horizon \in 0..MaxH
    /\ first_dow \in FirstDows
    /\ df = <<>> /\ cooldown = 0 /\ cd_seen = <<>>
    /\ is_trade = <<>> /\ step = <<>> /\ equity = <<>>
    /\ S0Idle /\ PageIdle /\ PlayIdle /\ ExtIdle

\* one iteration of the for loop of the no-overlap branch, on the next row
NoOverlapRow(state, rraw) ==
    /\ curve_pc = "loop"
    /\ mode = "long_setup_no_overlap"
    /\ Len(df) < MaxLen
    /\ df' = Append(df, [trade_date |-> TradeDate(first_dow, Len(df)),
                         core_signal_state |-> state,
                         ret |-> rraw])
    /\ cd_seen' = Append(cd_seen, cooldown)
    /\ LET r == FillNa0(rraw) IN
       IF Blocked(cooldown)
       THEN /\ is_trade' = Append(is_trade, 0)
            /\ step' = Append(step, Mult(0))
            /\ cooldown' = Decremented(cooldown)
       ELSE IF OpensTrade(state, r)
            THEN /\ is_trade' = Append(is_trade, 1)
                 /\ step' = Append(step, Mult(r))
                 /\ cooldown' = CooldownOnOpen(horizon)
            ELSE /\ is_trade' = Append(is_trade, 0)
                 /\ step' = Append(step, Mult(0))
                 /\ cooldown' = cooldown
    /\ UNCHANGED <<curve_pc, mode, horizon, first_dow, equity>>
    /\ UNCHANGED <<s0_vars, page_vars, play_vars, ext_vars>>

\* the rows are exhausted: the columns are stored and the equity is the
\* cumulative product of the steps
CurveReturn ==
    /\ curve_pc = "loop"
    /\ Len(df) >= 1
    /\ equity' = CumProd(step)
    /\ curve_pc' = "done"
    /\ UNCHANGED <<mode, horizon, first_dow, df, cooldown, cd_seen, is_trade, step>>
    /\ UNCHANGED <<s0_vars, page_vars, play_vars, ext_vars>>

NextNoOverlap ==
    \/ \E state \in CurveStates, rraw \in CurveRets : NoOverlapRow(state, rraw)
    \/ CurveReturn

SpecNoOverlap == InitNoOverlap /\ [][NextNoOverlap]_vars

\* ------------------------------------------------------------------------
\* Claims on the no-overlap curve
\* ------------------------------------------------------------------------
Rows == 1..Len(is_trade)
Opens(i) == is_trade[i] = 1
\* i and j are consecutive opened positions
ConsecutiveOpens(i, j) ==
    /\ i < j /\ Opens(i) /\ Opens(j)
    /\ \A k \in (i + 1)..(j - 1) : ~Opens(k)

\* C1: under long_setup_no_overlap with horizon H, two consecutive rows that
\* open a position are at least H rows apart and their trade dates differ by
\* at least H.
C1_NoOverlapSpacing ==
    mode = "long_setup_no_overlap" =>
        \A i \in Rows, j \in Rows :
            ConsecutiveOpens(i, j) =>
                /\ j - i >= horizon
                /\ df[j].trade_date - df[i].trade_date >= horizon

C1_Witness ==
    /\ curve_pc = "done" /\ mode = "long_setup_no_overlap" /\ horizon = 3
    /\ \E i \in Rows, j \in Rows : ConsecutiveOpens(i, j)

ExampleStates == <<"LONG_SETUP", "LONG_SETUP", "LONG_SETUP", "NEUTRAL", "LONG_SETUP">>
ExampleRets == <<Num(1), Num(1), Num(1), Num(0), Num(2)>>
IsExampleRun ==
    /\ curve_pc = "done" /\ mode = "long_setup_no_overlap" /\ horizon = 3
    /\ Len(df) = 5
    /\ \A i \in 1..5 : /\ df[i].core_signal_state = ExampleStates[i]
                       /\ df[i].ret = ExampleRets[i]

\* C2: under long_setup_no_overlap a row compounds its forward return exactly
\* when its state is LONG_SETUP and the cooldown counter is 0 when the row is
\* reached; every other row has multiplier 1.  For horizon 3, states
\* [T,T,T,N,T] and returns [0.01,0.01,0.01,0,0.02] the positions open at
\* index 0 and 4 only and the final equity is 1.01 * 1.02.
C2_CompoundIffTargetAndIdle ==
    mode = "long_setup_no_overlap" =>
        /\ \A i \in Rows :
            /\ Opens(i) <=> (df[i].core_signal_state = "LONG_SETUP" /\ cd_seen[i] = 0)
            /\ step[i] = IF Opens(i) THEN Mult(FillNa0(df[i].ret)) ELSE Mult(0)
        /\ IsExampleRun =>
            /\ is_trade = <<1, 0, 0, 0, 1>>
            /\ equity[5] = Times(Times(One, 101), 102)
            /\ equity[5] # Times(Times(Times(Times(One, 101), 101), 101), 102)

C2_Witness == IsExampleRun

\* ========================================================================
\* S0 state rule (core_signal_state of the s0 mart)
\* ========================================================================
S0States == {"LONG_SETUP", "NEUTRAL", "OVEREXTENDED", "MISSING"}
\* regime_bucket_10 / zscore_bucket_10: a decile, or null during warm-up
BucketVals == {Null} \cup {Num(b) : b \in 1..10}
\* forward returns carried by the research lineage next to the buckets
S0FwdRets == {Null, Num(-1), Num(1)}
S0Rows == [regime_bucket_10 : BucketVals, zscore_bucket_10 : BucketVals,
           fwd_ret_20d : S0FwdRets]

\* comparisons with null are not true
AtMost(x, n) == ~IsNull(x) /\ Val(x) <= n
AtLeast(x, n) == ~IsNull(x) /\ Val(x) >= n

\* MISSING: any bucket is null
IsMissing_Mut(row) == IsNull(row.regime_bucket_10) /\ IsNull(row.zscore_bucket_10)
IsMissing(row) == IsNull(row.regime_bucket_10) \/ IsNull(row.zscore_bucket_10)

\* LONG_SETUP: regime <= 3 AND z-score <= 3
IsLongSetup(row) == AtMost(row.regime_bucket_10, 3) /\ AtMost(row.zscore_bucket_10, 3)

\* OVEREXTENDED: regime >= 8 AND z-score >= 8
IsOverextended_Mut(row) == AtLeast(row.regime_bucket_10, 3) /\ AtLeast(row.zscore_bucket_10, 3)
IsOverextended(row) == AtLeast(row.regime_bucket_10, 8) /\ AtLeast(row.zscore_bucket_10, 8)

\* the lookup, MISSING checked first, NEUTRAL for everything else
core_signal_state_Mut(row) ==
    IF IsMissing(row) THEN "MISSING"
    ELSE IF IsLongSetup(row) /\ AtLeast(row.fwd_ret_20d, 0) THEN "LONG_SETUP"
    ELSE IF IsOverextended(row) THEN "OVEREXTENDED"
    ELSE "NEUTRAL"
core_signal_state(row) ==
    IF IsMissing(row) THEN "MISSING"
    ELSE IF IsLongSetup(row) THEN "LONG_SETUP"
    ELSE IF IsOverextended(row) THEN "OVEREXTENDED"
    ELSE "NEUTRAL"

\* the states whose rule the row satisfies
S0Satisfied(row) ==
    {s \in S0States :
        \/ s = "MISSING" /\ IsMissing(row)
        \/ s = "LONG_SETUP" /\ IsLongSetup(row)
        \/ s = "OVEREXTENDED" /\ IsOverextended(row)
        \/ s = "NEUTRAL" /\ ~IsMissing(row) /\ ~IsLongSetup(row) /\ ~IsOverextended(row)}

InitS0 == S0Idle /\ CurveIdle /\ PageIdle /\ PlayIdle /\ ExtIdle

\* the mart classifies one more row
S0Classify(row) ==
    /\ IsNull(s0_second)
    /\ LET out == [row |-> row, core_signal_state |-> core_signal_state(row)] IN
       IF IsNull(s0_first)
       THEN s0_first' = Num(out) /\ UNCHANGED s0_second
       ELSE s0_second' = Num(out) /\ UNCHANGED s0_first
    /\ UNCHANGED <<curve_vars, page_vars, play_vars, ext_vars>>

NextS0 == \E row \in S0Rows : S0Classify(row)

SpecS0 == InitS0 /\ [][NextS0]_vars

\* ------------------------------------------------------------------------
\* Claims on the S0 rule
\* ------------------------------------------------------------------------
S0Classified == {Val(x) : x \in {y \in {s0_first, s0_second} : ~IsNull(y)}}

\* C5: every pair of buckets in ({null} \cup 1..10)^2 satisfies the rule of
\* exactly one of the four states, that state is the one assigned, and no row
\* satisfies both the LONG_SETUP and the OVEREXTENDED rule.
C5_S0ExactlyOneState ==
    \A c \in S0Classified :
        /\ c.core_signal_state \in S0States
        /\ S0Satisfied(c.row) = {c.core_signal_state}
        /\ ~(IsLongSetup(c.row) /\ IsOverextended(c.row))

C5_Witness ==
    /\ ~IsNull(s0_first) /\ ~IsNull(s0_second)
    /\ Val(s0_first).core_signal_state = "LONG_SETUP"
    /\ Val(s0_first).row.regime_bucket_10 = Num(3)
    /\ Val(s0_first).row.zscore_bucket_10 = Num(3)
    /\ Val(s0_second).core_signal_state = "OVEREXTENDED"
    /\ Val(s0_second).row.regime_bucket_10 = Num(8)
    /\ Val(s0_second).row.zscore_bucket_10 = Num(8)

\* C6: a row with either bucket null is MISSING, whatever the other bucket;
\* otherwise both buckets <= 3 give LONG_SETUP, both buckets >= 8 give
\* OVEREXTENDED and every other pair gives NEUTRAL.
C6_S0Lookup ==
    \A c \in S0Classified :
        LET rb == c.row.regime_bucket_10
            zb == c.row.zscore_bucket_10
        IN IF rb = Null \/ zb = Null THEN c.core_signal_state = "MISSING"
           ELSE IF Val(rb) <= 3 /\ Val(zb) <= 3 THEN c.core_signal_state = "LONG_SETUP"
           ELSE IF Val(rb) >= 8 /\ Val(zb) >= 8 THEN c.core_signal_state = "OVEREXTENDED"
           ELSE c.core_signal_state = "NEUTRAL"

C6_Witness ==
    /\ ~IsNull(s0_first) /\ ~IsNull(s0_second)
    /\ Val(s0_first).row.regime_bucket_10 = Num(2)
    /\ Val(s0_first).row.zscore_bucket_10 = Null
    /\ Val(s0_first).core_signal_state = "MISSING"
    /\ Val(s0_second).row.regime_bucket_10 = Null
    /\ Val(s0_second).row.zscore_bucket_10 = Num(9)
    /\ Val(s0_second).core_signal_state = "MISSING"

\* C7: two rows with equal buckets get the same state, whatever their forward
\* returns.
C7_S0NoLookAhead ==
    (~IsNull(s0_first) /\ ~IsNull(s0_second)) =>
        LET a == Val(s0_first)
            b == Val(s0_second)
        IN (/\ a.row.regime_bucket_10 = b.row.regime_bucket_10
            /\ a.row.zscore_bucket_10 = b.row.zscore_bucket_10)
           => a.core_signal_state = b.core_signal_state

C7_Witness ==
    /\ ~IsNull(s0_first) /\ ~IsNull(s0_second)
    /\ Val(s0_first).row.regime_bucket_10 = Val(s0_second).row.regime_bucket_10
    /\ Val(s0_first).row.zscore_bucket_10 = Val(s0_second).row.zscore_bucket_10
    /\ Val(s0_first).row.fwd_ret_20d = Num(1)
    /\ Val(s0_second).row.fwd_ret_20d = Num(-1)
    /\ Val(s0_first).core_signal_state = "LONG_SETUP"

\* ========================================================================
\* S1 page: entry detection, KPI row and evidence summary
\* ========================================================================
\* a missing signal_state (None / NaN in the frame)
NA == "<NA>"
S1States == {"MOM", "REV", "NEU", "MISSING"}
FeedStates == S1States \cup {NA}
Horizons == {5, 10, 20}

\* fwd_return_5d / _10d / _20d of one row, in hundredths; the longer the
\* horizon the earlier the column turns null at the end of the history
FwdVec(a, b, c) == [h \in Horizons |-> IF h = 5 THEN a ELSE IF h = 10 THEN b ELSE c]
FwdVecs == { FwdVec(Null, Null, Null),
             FwdVec(Num(1), Null, Null),
             FwdVec(Num(-1), Num(1), Null),
             FwdVec(Num(0), Num(-1), Num(1)),
             FwdVec(Num(1), Num(1), Num(-1)) }

\* rows of the s1 mart for one ticker
FeedRowsOf(states, fwds) == [signal_state : states, fwd_return : fwds]
SeqsUpTo(S, n) == UNION {[1..k -> S] : k \in 1..n}

MaxHist == 6
MaxEv == 3

\* hist["signal_state"].fillna("NEU")
FillNaState(st) == IF st = NA THEN "NEU" ELSE st

\* hist["signal_state"].shift(1): the first row has no previous state
Shift1_Mut(col, i) == IF i = 1 THEN col[1] ELSE col[i - 1]
Shift1(col, i) == IF i = 1 THEN NA ELSE col[i - 1]

\* (signal_state != prev_state) & signal_state.isin(["MOM", "REV"])
IsEntry_Mut(st, prev) == st \in {"MOM", "REV"}
IsEntry(st, prev) == st # prev /\ st \in {"MOM", "REV"}

RECURSIVE SumSeq(_)
SumSeq(xs) == IF xs = <<>> THEN 0 ELSE xs[1] + SumSeq(Tail(xs))

\* the number of True values of a boolean series
CountTrue(bs) == Cardinality({i \in DOMAIN bs : bs[i]})

\* a column of the frame, and Series.dropna() as the sequence of its numbers
Column(rows, h) == [i \in DOMAIN rows |-> rows[i].fwd_return[h]]
DropNa(col) ==
    LET kept == SelectSeq(col, LAMBDA x : ~IsNull(x))
    IN [i \in DOMAIN kept |-> Val(kept[i])]

\* x > 0 on a nullable number (false on NaN)
GtZero(x) == ~IsNull(x) /\ Val(x) > 0

\* a fraction num/den, kept unreduced; null when undefined
Frac(n, d) == Num([num |-> n, den |-> d])

\* _safe_rate(series_bool): the mean of a boolean series
_safe_rate(series_bool) ==
    IF Len(series_bool) = 0 THEN Null
    ELSE Frac(CountTrue(series_bool), Len(series_bool))

\* one row of _evidence_summary: the state's rows, and per horizon the
\* statistics of the non-null forward returns
EvidenceRow(rows, state) ==
    LET sub == SelectSeq(rows, LAMBDA r : r.signal_state = state)
        fw(h) == DropNa(Column(sub, h))
    IN [state |-> state,
        n |-> Len(sub),
        mean_fw |-> [h \in Horizons |->
            IF Len(fw(h)) # 0 THEN Frac(SumSeq(fw(h)), Len(fw(h))) ELSE Null],
        win_rate_fw |-> [h \in Horizons |->
            IF Len(fw(h)) # 0
            THEN Frac(CountTrue([i \in DOMAIN fw(h) |-> fw(h)[i] > 0]), Len(fw(h)))
            ELSE Null]]

_evidence_summary(rows) ==
    <<EvidenceRow(rows, "MOM"), EvidenceRow(rows, "REV"), EvidenceRow(rows, "NEU")>>

\* the page script up to the summary, in the order of the file
PageLoaded(feed) ==
    /\ page_pc = "loaded"
    /\ s1_feed = feed
    /\ hist = feed
    /\ prev_state = <<>> /\ is_entry = <<>> /\ entries = <<>> /\ kpi = <<>>
    /\ basis = "none" /\ summary = <<>> /\ blocks = <<>>

\* a long state history (the forward returns play no part in the detection)
InitS1Entries ==
    /\ \E feed \in SeqsUpTo(FeedRowsOf(FeedStates, {FwdVec(Num(1), Num(1), Num(-1))}), MaxHist) :
          PageLoaded(feed)
    /\ CurveIdle /\ S0Idle /\ PlayIdle /\ ExtIdle

\* a short history with forward returns
InitS1Evidence ==
    /\ \E feed \in SeqsUpTo(FeedRowsOf(FeedStates, FwdVecs), MaxEv) : PageLoaded(feed)
    /\ CurveIdle /\ S0Idle /\ PlayIdle /\ ExtIdle

\* line 86
PageFillNa ==
    /\ page_pc = "loaded"
    /\ hist' = [i \in DOMAIN hist |->
                   [hist[i] EXCEPT !.signal_state = FillNaState(@)]]
    /\ page_pc' = "filled"
    /\ UNCHANGED <<s1_feed, prev_state, is_entry, entries, kpi, basis, summary, blocks>>
    /\ UNCHANGED <<curve_vars, s0_vars, play_vars, ext_vars>>

\* lines 97-99
PageDetectEntries ==
    /\ page_pc = "filled"
    /\ LET col == [i \in DOMAIN hist |-> hist[i].signal_state]
           prev == [i \in DOMAIN hist |-> Shift1(col, i)]
           flag == [i \in DOMAIN hist |-> IsEntry(col[i], prev[i])]
           idx == SelectSeq([i \in DOMAIN hist |-> i], LAMBDA i : flag[i])
       IN /\ prev_state' = prev
          /\ is_entry' = flag
          /\ entries' = [k \in DOMAIN idx |-> hist[idx[k]]]
    /\ page_pc' = "entries"
    /\ UNCHANGED <<s1_feed, hist, kpi, basis, summary, blocks>>
    /\ UNCHANGED <<curve_vars, s0_vars, play_vars, ext_vars>>

\* lines 108-133
PageKpi ==
    /\ page_pc = "entries"
    /\ LET mom == SelectSeq(hist, LAMBDA r : r.signal_state = "MOM")
           mom_fw10 == Column(mom, 10)
       IN kpi' = [n_days |-> Len(hist),
                  n_mom |-> Len(mom),
                  n_rev |-> Len(SelectSeq(hist, LAMBDA r : r.signal_state = "REV")),
                  n_neu |-> Len(SelectSeq(hist, LAMBDA r : r.signal_state = "NEU")),
                  mom_win_rate_fw10 |->
                      IF Len(DropNa(mom_fw10)) # 0
                      THEN _safe_rate([i \in DOMAIN mom_fw10 |-> GtZero(mom_fw10[i])])
                      ELSE Null]
    /\ page_pc' = "kpi"
    /\ UNCHANGED <<s1_feed, hist, prev_state, is_entry, entries, basis, summary, blocks>>
    /\ UNCHANGED <<curve_vars, s0_vars, play_vars, ext_vars>>

\* a new block starts at a row whose state differs from the current one
BlockBreak_Mut(st, cur) == st # cur /\ st \in {"MOM", "REV"}
BlockBreak(st, cur) == st # cur

\* the for loop of _contiguous_blocks from row i on: start and cur are its
\* locals, out the blocks yielded so far
RECURSIVE BlocksFrom(_, _, _, _, _, _)
BlocksFrom(dates, states, i, start, cur, out) ==
    IF i > Len(dates)
    THEN Append(out, [start |-> start, end |-> dates[Len(dates)], state |-> cur])
    ELSE IF BlockBreak(states[i], cur)
         THEN BlocksFrom(dates, states, i + 1, dates[i], states[i],
                         Append(out, [start |-> start, end |-> dates[i], state |-> cur]))
         ELSE BlocksFrom(dates, states, i + 1, start, cur, out)

\* list(_contiguous_blocks(df)) for the trade_date and signal_state columns
_contiguous_blocks(dates, states) ==
    IF states = <<>> THEN <<>>
    ELSE BlocksFrom(dates, states, 2, dates[1], states[1], <<>>)

\* hist["trade_date"]: the rows are sorted by date, one per trading day
HistDates(h) == [i \in DOMAIN h |-> TradeDate(0, i - 1)]

\* lines 322-325: the shaded chart, when the sidebar asks for it
PageChart(show_shading) ==
    /\ page_pc = "kpi"
    /\ blocks' = IF show_shading
                 THEN _contiguous_blocks(HistDates(hist),
                                         [i \in DOMAIN hist |-> hist[i].signal_state])
                 ELSE <<>>
    /\ page_pc' = "charted"
    /\ UNCHANGED <<s1_feed, hist, prev_state, is_entry, entries, kpi, basis, summary>>
    /\ UNCHANGED <<curve_vars, s0_vars, play_vars, ext_vars>>

\* lines 332-358
PageSummary(b) ==
    /\ page_pc = "charted"
    /\ basis' = b
    /\ summary' = _evidence_summary(IF b = "all_days" THEN hist ELSE entries)
    /\ page_pc' = "summary"
    /\ UNCHANGED <<s1_feed, hist, prev_state, is_entry, entries, kpi, blocks>>
    /\ UNCHANGED <<curve_vars, s0_vars, play_vars, ext_vars>>

NextS1Page ==
    \/ PageFillNa
    \/ PageDetectEntries
    \/ PageKpi
    \/ \E show_shading \in BOOLEAN : PageChart(show_shading)
    \/ \E b \in {"all_days", "entry_days"} : PageSummary(b)

SpecS1Entries == InitS1Entries /\ [][NextS1Page]_vars
SpecS1Evidence == InitS1Evidence /\ [][NextS1Page]_vars

\* ------------------------------------------------------------------------
\* Claims on the entry detection
\* ------------------------------------------------------------------------
Detected == page_pc \in {"entries", "kpi", "summary"}
StateCol == [i \in DOMAIN hist |-> hist[i].signal_state]
Tradable(st) == st \in {"MOM", "REV"}

\* the maximal contiguous runs of equal state, as <<first, last>>
MaximalRuns(col) ==
    {r \in (DOMAIN col) \X (DOMAIN col) :
        /\ r[1] <= r[2]
        /\ \A k \in r[1]..r[2] : col[k] = col[r[1]]
        /\ r[1] = 1 \/ col[r[1] - 1] # col[r[1]]
        /\ r[2] = Len(col) \/ col[r[2] + 1] # col[r[2]]}

\* C3: the number of rows reported as entries equals the number of maximal
\* contiguous runs of equal state whose state is MOM or REV.
C3_EntriesCountTradableRuns ==
    Detected =>
        LET runs == {r \in MaximalRuns(StateCol) : Tradable(StateCol[r[1]])}
        IN /\ Len(entries) = Cardinality(runs)
           /\ Cardinality({i \in DOMAIN is_entry : is_entry[i]}) = Cardinality(runs)

C3_Witness ==
    /\ Detected /\ Len(hist) = 6 /\ Len(entries) = 2
    /\ StateCol[1] = "MOM" /\ StateCol[2] = "MOM" /\ StateCol[3] = "REV"
    /\ StateCol[4] = "REV" /\ StateCol[5] = "NEU" /\ StateCol[6] = "NEU"

ExampleSeries == <<"NEU", "NEU", "MOM", "MOM", "NEU", "MOM">>

\* C4: a row is an entry exactly when its state is MOM or REV and it is the
\* first row or its state differs from the previous row's state; a row whose
\* state equals the previous row's state is never an entry.  For
\* [NEU,NEU,MOM,MOM,NEU,MOM] the entries are index 2 and index 5 (0-based).
C4_EntryIffRunStart ==
    Detected =>
        /\ \A i \in DOMAIN hist :
            /\ is_entry[i] <=>
                  (Tradable(StateCol[i]) /\ (i = 1 \/ StateCol[i] # StateCol[i - 1]))
            /\ (i > 1 /\ StateCol[i] = StateCol[i - 1]) => ~is_entry[i]
        /\ StateCol = ExampleSeries =>
            /\ {i \in DOMAIN is_entry : is_entry[i]} = {3, 6}
            /\ entries = <<hist[3], hist[6]>>

C4_Witness == Detected /\ StateCol = ExampleSeries

\* ------------------------------------------------------------------------
\* Claims on the S1 state carried by the page's rows
\* ------------------------------------------------------------------------
\* C8: every row carries exactly one state of {MOM, REV, NEU, MISSING}, and a
\* row that has no state from its inputs (null inputs) is MISSING, never NEU;
\* MOM, REV and NEU are carried by the rows that are not missing only.
C8_S1NullIsMissing ==
    page_pc \in {"filled", "entries", "kpi", "summary"} =>
        \A i \in DOMAIN hist :
            /\ hist[i].signal_state \in S1States
            /\ s1_feed[i].signal_state \in {NA, "MISSING"}
                  <=> hist[i].signal_state = "MISSING"

\* ------------------------------------------------------------------------
\* Claims on the evidence summary
\* ------------------------------------------------------------------------
EvidenceDf == IF basis = "all_days" THEN hist ELSE entries
NonNullCount(rows, h) == CountTrue([i \in DOMAIN rows |-> ~IsNull(rows[i].fwd_return[h])])

\* C9: for every group (state, horizon) the reported count is the number of
\* rows of the group whose forward return at that horizon is non-null
\* (stated on the histories in which every row arrived with a state).
C9_NObsCountsNonNull ==
    (page_pc = "summary" /\ \A i \in DOMAIN s1_feed : s1_feed[i].signal_state # NA) =>
        \A k \in DOMAIN summary, h \in Horizons :
            summary[k].n =
                NonNullCount(SelectSeq(EvidenceDf,
                                 LAMBDA r : r.signal_state = summary[k].state), h)

\* the minimum number of valid points of a statistic (`len(valid) < 10`)
MinPoints == 10

\* C12: every evidence group (state, horizon) with fewer than 10 non-null
\* forward returns reports a null mean (stated on the histories in which
\* every row arrived with a state).
C12_SmallGroupMeanIsNull ==
    (page_pc = "summary" /\ \A i \in DOMAIN s1_feed : s1_feed[i].signal_state # NA) =>
        \A k \in DOMAIN summary, h \in Horizons :
            NonNullCount(SelectSeq(EvidenceDf,
                             LAMBDA r : r.signal_state = summary[k].state), h)
                  < MinPoints
                => IsNull(summary[k].mean_fw[h])

\* ========================================================================
\* Per-ticker summary of the research playground
\* ========================================================================
MaxEvents == 3
Tickers == {"AAPL", "MSFT"}
\* fwd_ret_<h>d of the selected horizon, in hundredths
EventRets == {Null, Num(-1), Num(0), Num(1)}
EventRows == [ticker : Tickers, core_signal_state : CurveStates, ret : EventRets]

\* .agg(...) on one ticker's rows:
\*   n_obs = ("ret", "count"), avg_fwd_return = ("ret", "mean"),
\*   win_rate = (x > 0).mean(), long_setup_rate = (x == "LONG_SETUP").mean()
TickerAgg(rows) ==
    LET x == [i \in DOMAIN rows |-> rows[i].ret]
        valid == DropNa(x)
    IN [n_obs |-> Len(valid),
        avg_fwd_return |->
            IF Len(valid) # 0 THEN Frac(SumSeq(valid), Len(valid)) ELSE Null,
        win_rate |->
            IF Len(x) # 0 THEN Frac(CountTrue([i \in DOMAIN x |-> GtZero(x[i])]), Len(x)) ELSE Null,
        long_setup_rate |->
            IF Len(rows) # 0
            THEN Frac(CountTrue([i \in DOMAIN rows |->
                                    rows[i].core_signal_state = "LONG_SETUP"]),
                      Len(rows))
            ELSE Null]

\* the tickers present in the frame: the groups of groupby("ticker")
GroupKeys(rows) == {rows[i].ticker : i \in DOMAIN rows}

InitSummary ==
    /\ play_pc = "loaded"
    /\ events \in SeqsUpTo(EventRows, MaxEvents)
    /\ ticker_summary = <<>>
    /\ CurveIdle /\ S0Idle /\ PageIdle /\ ExtIdle

\* lines 265-275
Summarise ==
    /\ play_pc = "loaded"
    /\ ticker_summary' =
          [t \in GroupKeys(events) |->
              TickerAgg(SelectSeq(events, LAMBDA r : r.ticker = t))]
    /\ play_pc' = "summarised"
    /\ UNCHANGED events
    /\ UNCHANGED <<curve_vars, s0_vars, page_vars, ext_vars>>

NextSummary == Summarise

SpecSummary == InitSummary /\ [][NextSummary]_vars

\* C10: the win_rate of a group equals the number of its forward returns
\* that are > 0 divided by n_obs, the count of its non-null forward returns;
\* rows with a null forward return count in neither.
C10_WinRateOverNonNull ==
    play_pc = "summarised" =>
        \A t \in DOMAIN ticker_summary :
            LET g == ticker_summary[t]
                rets == DropNa([i \in DOMAIN events |->
                                   IF events[i].ticker = t THEN events[i].ret ELSE Null])
                wins == CountTrue([i \in DOMAIN rets |-> rets[i] > 0])
            IN g.n_obs > 0 =>
                /\ ~IsNull(g.win_rate)
                /\ Val(g.win_rate).num * g.n_obs = wins * Val(g.win_rate).den

\* ========================================================================
\* EARLY vs LATE pooling (pages/6_Research_Validation.py)
\* ========================================================================
MaxObs == 2

\* the period labels the pool keeps
PoolLabels == <<"EARLY", "LATE">>
\* avg_forward_return and win_rate of a row of the performance table, in
\* hundredths
PoolMeans == {-1, 0, 2}
PoolWinRates == {0, 50}
\* a row of the performance table for the chosen state and horizon: a group
\* of n_obs events with their mean and win rate; an empty group has neither
PoolCells ==
    {[avg_forward_return |-> Null, win_rate |-> Null, n_obs |-> 0]}
    \cup [avg_forward_return : {Num(m) : m \in PoolMeans},
          win_rate : {Num(w) : w \in PoolWinRates},
          n_obs : 1..MaxObs]
Absent == [avg_forward_return |-> Null, win_rate |-> Null, n_obs |-> -1]

\* the (ticker, period_label) keys of the performance table, in table order
PoolSlots ==
    << <<"AAPL", "EARLY">>, <<"AAPL", "LATE">>,
       <<"MSFT", "EARLY">>, <<"MSFT", "LATE">> >>

\* the pool frame: the rows of the selected tickers with period_label in
\* ("EARLY", "LATE")
PoolFrame(cells) ==
    LET all == [k \in DOMAIN PoolSlots |->
                  [ticker |-> PoolSlots[k][1],
                   period_label |-> PoolSlots[k][2],
                   avg_forward_return |-> cells[k].avg_forward_return,
                   win_rate |-> cells[k].win_rate,
                   n_obs |-> cells[k].n_obs]]
        present(r) == r.n_obs >= 0 /\ r.period_label \in {"EARLY", "LATE"}
    IN SelectSeq(all, present)

\* series * weights : NaN where the series is NaN
SeriesTimes(series, weights) ==
    [i \in DOMAIN series |->
        IF IsNull(series[i]) THEN Null ELSE Num(Val(series[i]) * weights[i])]

\* Series.sum() : NaN entries are skipped
SumSkipNa(col) == SumSeq(DropNa(col))

\* def wavg(series, weights)
wavg_Mut(series, weights) ==
    IF SumSeq(weights) # 0
    THEN Frac(SumSkipNa(series), Len(DropNa(series)))
    ELSE Null
wavg(series, weights) ==
    IF SumSeq(weights) # 0
    THEN Frac(SumSkipNa(SeriesTimes(series, weights)), SumSeq(weights))
    ELSE Null

\* the rows of one group of pool.groupby("period_label")
PoolGroup(frame, label) == SelectSeq(frame, LAMBDA r : r.period_label = label)
\* the group keys, sorted
PoolGroupKeys(frame) ==
    SelectSeq(PoolLabels, LAMBDA l : PoolGroup(frame, l) # <<>>)

\* the pd.Series the lambda builds for one group; float(None) raises
PoolRow(g, label) ==
    LET w == [i \in DOMAIN g |-> g[i].n_obs]
    IN [period_label |-> label,
        n_obs |-> SumSeq(w),
        avg_forward_return_w |-> wavg([i \in DOMAIN g |-> g[i].avg_forward_return], w),
        win_rate_w |-> wavg([i \in DOMAIN g |-> g[i].win_rate], w)]
FloatRaises(row) == IsNull(row.avg_forward_return_w) \/ IsNull(row.win_rate_w)

PoolRows(frame) ==
    [k \in DOMAIN PoolGroupKeys(frame) |->
        PoolRow(PoolGroup(frame, PoolGroupKeys(frame)[k]), PoolGroupKeys(frame)[k])]

InitPool ==
    /\ pool_pc = "loaded"
    /\ \E cells \in [DOMAIN PoolSlots -> PoolCells \cup {Absent}] :
          pool = PoolFrame(cells)
    /\ pool_summary = <<>>
    /\ CurveIdle /\ S0Idle /\ PageIdle /\ PlayIdle
    /\ SentIdle /\ SchemaIdle /\ BucketIdle /\ JobIdle

\* `if pool.empty: st.info(...)`
PoolEmpty ==
    /\ pool_pc = "loaded"
    /\ pool = <<>>
    /\ pool_pc' = "info"
    /\ UNCHANGED <<pool, pool_summary>>
    /\ UNCHANGED <<curve_vars, s0_vars, page_vars, play_vars>>
    /\ UNCHANGED <<sent_vars, schema_vars, bucket_vars, job_vars>>

\* the else branch: summary = pool.groupby("period_label").apply(...)
PoolSummarise ==
    /\ pool_pc = "loaded"
    /\ pool # <<>>
    /\ LET rows == PoolRows(pool) IN
       IF \E k \in DOMAIN rows : FloatRaises(rows[k])
       THEN pool_pc' = "raised" /\ pool_summary' = <<>>
       ELSE pool_pc' = "summarised" /\ pool_summary' = rows
    /\ UNCHANGED pool
    /\ UNCHANGED <<curve_vars, s0_vars, page_vars, play_vars>>
    /\ UNCHANGED <<sent_vars, schema_vars, bucket_vars, job_vars>>

NextPool == PoolEmpty \/ PoolSummarise

SpecPool == InitPool /\ [][NextPool]_vars

\* ------------------------------------------------------------------------
\* Claims on the pooling
\* ------------------------------------------------------------------------
RECURSIVE SumFn(_)
SumFn(f) ==
    IF DOMAIN f = {} THEN 0
    ELSE LET k == CHOOSE k \in DOMAIN f : TRUE
         IN f[k] + SumFn([j \in DOMAIN f \ {k} |-> f[j]])

\* indices of the pool rows of a label, and of those that hold observations
LabelRows(label) == {i \in DOMAIN pool : pool[i].period_label = label}
Observed(label) == {i \in LabelRows(label) : pool[i].n_obs > 0}
TotalObs(label) == SumFn([i \in LabelRows(label) |-> pool[i].n_obs])
WeightedSum(label) ==
    SumFn([i \in Observed(label) |-> Val(pool[i].avg_forward_return) * pool[i].n_obs])
PlainSum(label) ==
    SumFn([i \in Observed(label) |-> Val(pool[i].avg_forward_return)])
SummaryRowsOf(label) ==
    {k \in DOMAIN pool_summary : pool_summary[k].period_label = label}

\* C11: in the summary of the pooled EARLY/LATE comparison, every period
\* label of the pool has one row; with a positive total of n_obs its n_obs
\* is the sum of the per-ticker n_obs and its mean m satisfies
\* m * sum(n_obs_i) = sum(mean_i * n_obs_i), the n_obs-weighted average.
C11_PooledMeanIsWeighted ==
    pool_pc = "summarised" =>
        \A l \in {"EARLY", "LATE"} :
            LabelRows(l) # {} =>
                /\ Cardinality(SummaryRowsOf(l)) = 1
                /\ \A k \in SummaryRowsOf(l) :
                     TotalObs(l) > 0 =>
                        /\ pool_summary[k].n_obs = TotalObs(l)
                        /\ ~IsNull(pool_summary[k].avg_forward_return_w)
                        /\ LET m == Val(pool_summary[k].avg_forward_return_w)
                           IN /\ m.den > 0
                              /\ m.num * TotalObs(l) = m.den * WeightedSum(l)

\* a pooled label of two tickers whose weighted mean differs from the simple
\* average of the two means
C11_Witness ==
    /\ pool_pc = "summarised"
    /\ \E l \in {"EARLY", "LATE"} :
         /\ Cardinality(Observed(l)) = 2
         /\ WeightedSum(l) * 2 # PlainSum(l) * TotalObs(l)

\* C14: once the pooled comparison has been computed, every period label of
\* the pool has a summary row that reports the label's total n_obs, and a
\* label whose total n_obs is zero has a null mean next to it; the
\* computation does not raise.
C14_SmallSampleIsData ==
    pool_pc \in {"summarised", "raised"} =>
        /\ pool_pc # "raised"
        /\ \A l \in {"EARLY", "LATE"} :
              LabelRows(l) # {} =>
                 \E k \in SummaryRowsOf(l) :
                    /\ pool_summary[k].n_obs = TotalObs(l)
                    /\ TotalObs(l) = 0 => IsNull(pool_summary[k].avg_forward_return_w)

\* ========================================================================
\* Lagged sentiment and its correlation with forward returns
\* (pages/7_Sentiment_Research.py, pages/04_sentiment_vs_returns.py)
\* ========================================================================
MaxSeries == 11
MaxShort == 2
MaxLag == 1

\* order of the tickers in a sort on the ticker column
TickerRank == [AAPL |-> 1, MSFT |-> 2]

\* sentiment score and forward return of the long series on its k-th
\* trading day (1-based), null on at most one day each
LongSentiment(k, null_at) == IF k = null_at THEN Null ELSE Num(k % 3)
LongRet(k, null_at) == IF k = null_at THEN Null ELSE Num((k * k) % 5)

\* the day without a sentiment score, the day without a forward return
\* (0: every day has one)
SentimentNullDays == {0, 2}
RetNullDays == {0, 3}

\* regime_label of a trading day: the first day is EARLY, or none is
RegimeLabel(k, early_days) == IF k <= early_days THEN "EARLY" ELSE "LATE"

\* the frame both pages work on after their filters: n rows of AAPL and m
\* rows of MSFT, one per trading day, in the order of the loader
SentimentFeed(n, m, s_null, r_null, early_days, descending) ==
    LET long == [k \in 1..n |->
                   [ticker |-> "AAPL", trade_date |-> TradeDate(0, k - 1),
                    sentiment |-> LongSentiment(k, s_null),
                    ret |-> LongRet(k, r_null),
                    regime_label |-> RegimeLabel(k, early_days)]]
        short == [k \in 1..m |->
                   [ticker |-> "MSFT", trade_date |-> TradeDate(0, k - 1),
                    sentiment |-> Num(2), ret |-> Num(1),
                    regime_label |-> RegimeLabel(k, early_days)]]
        asc == short \o long
    IN IF descending THEN [i \in DOMAIN asc |-> asc[Len(asc) + 1 - i]] ELSE asc

\* stable sort of a frame: before[i][j] holds when row i's key is strictly
\* smaller than row j's; rows of equal key keep their order
SortByOrder(rows, before) ==
    LET pos == [i \in DOMAIN rows |->
                  1 + Cardinality({j \in DOMAIN rows : before[j][i]})
                    + Cardinality({j \in 1..(i - 1) : ~before[j][i] /\ ~before[i][j]})]
    IN [p \in DOMAIN rows |-> rows[CHOOSE i \in DOMAIN rows : pos[i] = p]]

ByTickerDate(a, b) ==
    \/ TickerRank[a.ticker] < TickerRank[b.ticker]
    \/ a.ticker = b.ticker /\ a.trade_date < b.trade_date
ByDate(a, b) == a.trade_date < b.trade_date

\* view.sort_values(["ticker", "trade_date"])
SortTickerDate(rows) ==
    SortByOrder(rows, [i \in DOMAIN rows |->
                         [j \in DOMAIN rows |-> ByTickerDate(rows[i], rows[j])]])
\* grp.sort_values("trade_date")
SortDate(rows) ==
    SortByOrder(rows, [i \in DOMAIN rows |->
                         [j \in DOMAIN rows |-> ByDate(rows[i], rows[j])]])

\* Series.shift(n): the value n positions earlier, NaN outside the series
Shift(col, n) ==
    [i \in DOMAIN col |-> IF i - n \in DOMAIN col THEN col[i - n] ELSE Null]

\* view.groupby("ticker")["sentiment_score"].shift(lag): the shift is
\* applied to each ticker's rows, the result keeps the frame's index
GroupShift_Mut(rows, n) == Shift([i \in DOMAIN rows |-> rows[i].sentiment], n)
GroupShift(rows, n) ==
    LET shifted == [t \in {rows[i].ticker : i \in DOMAIN rows} |->
                      LET g == SelectSeq(rows, LAMBDA r : r.ticker = t)
                      IN Shift([j \in DOMAIN g |-> g[j].sentiment], n)]
    IN [i \in DOMAIN rows |->
          shifted[rows[i].ticker]
                 [Cardinality({j \in 1..i : rows[j].ticker = rows[i].ticker})]]

WithLagged(rows, lagged) ==
    [i \in DOMAIN rows |->
        [ticker |-> rows[i].ticker, trade_date |-> rows[i].trade_date,
         sentiment |-> rows[i].sentiment, ret |-> rows[i].ret,
         regime_label |-> rows[i].regime_label,
         sentiment_lagged |-> lagged[i]]]

\* dropna(subset=["sentiment_lagged", ret_col])
DropNaPairs(rows) ==
    SelectSeq(rows, LAMBDA r : ~IsNull(r.sentiment_lagged) /\ ~IsNull(r.ret))

\* Series.corr: Pearson's r = cov / sqrt(vx * vy), kept as the three integers
\* cov = n*Sxy - Sx*Sy, vx = n*Sxx - Sx^2, vy = n*Syy - Sy^2; r is NaN when
\* vx * vy = 0
Pearson(rows) ==
    LET x == [i \in DOMAIN rows |-> Val(rows[i].sentiment_lagged)]
        y == [i \in DOMAIN rows |-> Val(rows[i].ret)]
        n == Len(rows)
        Sx == SumSeq(x)
        Sy == SumSeq(y)
        Sxx == SumSeq([i \in DOMAIN x |-> x[i] * x[i]])
        Syy == SumSeq([i \in DOMAIN y |-> y[i] * y[i]])
        Sxy == SumSeq([i \in DOMAIN x |-> x[i] * y[i]])
    IN Num([cov |-> n * Sxy - Sx * Sy,
            vx |-> n * Sxx - Sx * Sx,
            vy |-> n * Syy - Sy * Sy])
IsNaN(c) == IsNull(c) \/ Val(c).vx * Val(c).vy = 0

\* a is sorted before b by sort_values("correlation", ascending=False):
\* larger r first, None and NaN last
CorrDescending(a, b) ==
    /\ ~IsNaN(a.correlation)
    /\ \/ IsNaN(b.correlation)
       \/ LET p == Val(a.correlation)
              q == Val(b.correlation)
              sq(c) == (IF c.cov < 0 THEN -1 ELSE 1) * c.cov * c.cov
          IN sq(p) * (q.vx * q.vy) > sq(q) * (p.vx * p.vy)

\* the tickers of a frame, in sorted order
FrameTickers(rows) ==
    SelectSeq(<<"AAPL", "MSFT">>, LAMBDA t : \E i \in DOMAIN rows : rows[i].ticker = t)
FrameLabels(rows) ==
    SelectSeq(PoolLabels, LAMBDA l : \E i \in DOMAIN rows : rows[i].regime_label = l)

\* page 7: `... if len(g) > 10 else None`
CorrIfEnough7(g) == IF Len(g) > 10 THEN Pearson(g) ELSE Null
\* page 04: `if len(valid) < 10: corr = None else: corr = ...`
CorrIfEnough04(valid) == IF Len(valid) < 10 THEN Null ELSE Pearson(valid)

\* page 7: corr = view.groupby("ticker").apply(...).sort_values(...)
CorrTable7(view) ==
    LET keys == FrameTickers(view)
        tbl == [k \in DOMAIN keys |->
                  [ticker |-> keys[k],
                   correlation |->
                      CorrIfEnough7(SelectSeq(view, LAMBDA r : r.ticker = keys[k]))]]
    IN SortByOrder(tbl, [i \in DOMAIN tbl |->
                           [j \in DOMAIN tbl |-> CorrDescending(tbl[i], tbl[j])]])

\* page 7: early_late = view.groupby(["regime_label"]).apply(...)
EarlyLate(view) ==
    LET keys == FrameLabels(view)
    IN [k \in DOMAIN keys |->
          LET g == SelectSeq(view, LAMBDA r : r.regime_label = keys[k])
          IN [regime_label |-> keys[k],
              n_obs |-> Len(g),
              avg_fwd_return |-> Frac(SumSeq([i \in DOMAIN g |-> Val(g[i].ret)]), Len(g)),
              correlation |-> CorrIfEnough7(g)]]

\* page 04: compute_lagged_corr(df_in, sentiment_col, return_col, lag);
\* `valid` is kept next to each row of the result
compute_lagged_corr(df_in, n) ==
    LET keys == FrameTickers(df_in)
    IN [k \in DOMAIN keys |->
          LET grp == SortDate(SelectSeq(df_in, LAMBDA r : r.ticker = keys[k]))
              lagged == Shift([i \in DOMAIN grp |-> grp[i].sentiment], n)
              valid == DropNaPairs(WithLagged(grp, lagged))
          IN [ticker |-> keys[k],
              n_points |-> Len(valid),
              correlation |-> CorrIfEnough04(valid),
              valid |-> valid]]

\* the values of a column as a list
ToList(col) == SubSeq(col, 1, Len(col))

\* number of quantile bins of the sentiment deciles
SentimentBins == 10

\* pd.qcut(x, 10, labels=False, duplicates="drop") of a column x: the bin
\* edges are the quantiles 0, 0.1, .., 1 of the non-null values (linear
\* interpolation, kept times 10), equal edges are dropped, and a value
\* falls in the bin (edge, next edge] that holds it, the lowest edge
\* included; the label is the 0-based number of the bin, NaN for a null
\* value and for a value that no bin holds
qcut10(x) ==
    LET present == SelectSeq(x, LAMBDA v : ~IsNull(v))
        unsorted == [i \in DOMAIN present |-> Val(present[i])]
        vals == ToList(SortByOrder(unsorted,
                    [i \in DOMAIN unsorted |->
                        [j \in DOMAIN unsorted |-> unsorted[i] < unsorted[j]]]))
        n == Len(vals)
        edge(k) == LET pos == k * (n - 1)
                       lo == pos \div SentimentBins + 1
                       fr == pos % SentimentBins
                   IN SentimentBins * vals[lo]
                        + (IF fr = 0 THEN 0 ELSE fr * (vals[lo + 1] - vals[lo]))
        bins == IF n = 0 THEN {} ELSE {edge(k) : k \in 0..SentimentBins}
        ids(v) == IF \A e \in bins : SentimentBins * v <= e THEN 1
                  ELSE Cardinality({e \in bins : e < SentimentBins * v})
    IN ToList([i \in DOMAIN x |->
          IF IsNull(x[i]) \/ ids(Val(x[i])) = Cardinality(bins) \/ ids(Val(x[i])) = 0
          THEN Null
          ELSE Num(ids(Val(x[i])) - 1)])

\* view.groupby("ticker")["sentiment_lagged"].transform(qcut) + 1: the
\* bins are those of each ticker's own rows, NaN stays NaN
sentiment_bucket_10(rows) ==
    LET tickers == FrameTickers(rows)
        binned == ToList([k \in DOMAIN tickers |->
                      LET g == SelectSeq(rows, LAMBDA r : r.ticker = tickers[k])
                      IN qcut10(ToList([j \in DOMAIN g |-> g[j].sentiment_lagged]))])
    IN [i \in DOMAIN rows |->
          LET k == CHOOSE k \in DOMAIN tickers : tickers[k] = rows[i].ticker
              b == binned[k][Cardinality({j \in 1..i : rows[j].ticker = rows[i].ticker})]
          IN IF IsNull(b) THEN Null ELSE Num(Val(b) + 1)]

WithBuckets(rows, buckets) ==
    [i \in DOMAIN rows |->
        [ticker |-> rows[i].ticker, trade_date |-> rows[i].trade_date,
         sentiment |-> rows[i].sentiment, ret |-> rows[i].ret,
         regime_label |-> rows[i].regime_label,
         sentiment_lagged |-> rows[i].sentiment_lagged,
         sentiment_bucket_10 |-> buckets[i]]]

InitSentiment ==
    /\ sent_pc = "loaded"
    /\ lag \in (-MaxLag)..MaxLag
    /\ \E n \in (MaxSeries - 2)..MaxSeries, m \in 1..MaxShort,
          s_null \in SentimentNullDays, r_null \in RetNullDays,
          early_days \in {0, 1}, descending \in BOOLEAN :
          sent_feed = SentimentFeed(n, m, s_null, r_null, early_days, descending)
    /\ sent_view = <<>> /\ corr7 = <<>> /\ early_late = <<>> /\ corr04 = <<>>
    /\ CurveIdle /\ S0Idle /\ PageIdle /\ PlayIdle
    /\ PoolIdle /\ SchemaIdle /\ BucketIdle /\ JobIdle

\* the view of page 7 after its section "Sentiment decile buckets"
LaggedView(feed, n) ==
    LET sorted == ToList(SortTickerDate(feed))
        lagged == ToList(WithLagged(sorted, GroupShift(sorted, n)))
    IN WithBuckets(lagged, sentiment_bucket_10(lagged))

\* page 7, "Filter + lag" and "Sentiment decile buckets": sort, the
\* per-ticker shift, then the per-ticker deciles of the lagged sentiment
SentLag ==
    /\ sent_pc = "loaded"
    /\ sent_view' = LaggedView(sent_feed, lag)
    /\ sent_pc' = "lagged"
    /\ UNCHANGED <<lag, sent_feed, corr7, early_late, corr04>>
    /\ UNCHANGED <<curve_vars, s0_vars, page_vars, play_vars>>
    /\ UNCHANGED <<pool_vars, schema_vars, bucket_vars, job_vars>>

\* page 7: dropna, the empty check, the correlation table and the
\* EARLY/LATE table
SentCorrelate ==
    /\ sent_pc = "lagged"
    /\ LET view == DropNaPairs(sent_view) IN
       /\ sent_view' = view
       /\ IF view = <<>>
          THEN sent_pc' = "stopped" /\ UNCHANGED <<corr7, early_late>>
          ELSE /\ sent_pc' = "done"
               /\ corr7' = CorrTable7(view)
               /\ early_late' = EarlyLate(view)
    /\ UNCHANGED <<lag, sent_feed, corr04>>
    /\ UNCHANGED <<curve_vars, s0_vars, page_vars, play_vars>>
    /\ UNCHANGED <<pool_vars, schema_vars, bucket_vars, job_vars>>

\* page 04: corr_df = compute_lagged_corr(df, sentiment_field, return_field, lag_days)
SentCorr04 ==
    /\ sent_pc # "idle"
    /\ corr04 = <<>>
    /\ corr04' = compute_lagged_corr(sent_feed, lag)
    /\ UNCHANGED <<sent_pc, lag, sent_feed, sent_view, corr7, early_late>>
    /\ UNCHANGED <<curve_vars, s0_vars, page_vars, play_vars>>
    /\ UNCHANGED <<pool_vars, schema_vars, bucket_vars, job_vars>>

NextSentiment == SentLag \/ SentCorrelate \/ SentCorr04

SpecSentiment == InitSentiment /\ [][NextSentiment]_vars

\* ------------------------------------------------------------------------
\* Claims on the lagged sentiment
\* ------------------------------------------------------------------------
\* the feed rows of a ticker, and the position of a row in the ticker's
\* chronological order
FeedOf(t) == {i \in DOMAIN sent_feed : sent_feed[i].ticker = t}
PosOf(t, date) ==
    Cardinality({i \in FeedOf(t) : sent_feed[i].trade_date <= date})
\* the ticker's sentiment at a position, null outside its series
SentimentAt(t, pos) ==
    IF \E i \in FeedOf(t) : PosOf(t, sent_feed[i].trade_date) = pos
    THEN sent_feed[CHOOSE i \in FeedOf(t) :
                       PosOf(t, sent_feed[i].trade_date) = pos].sentiment
    ELSE Null
\* the expected lagged sentiment of a row
LaggedAt(t, date) == SentimentAt(t, PosOf(t, date) - lag)
\* the feed rows of a ticker that give an overlapping non-null pair
PairRows(t) ==
    {i \in FeedOf(t) : /\ ~IsNull(LaggedAt(t, sent_feed[i].trade_date))
                       /\ ~IsNull(sent_feed[i].ret)}
\* the pairs in chronological order, as the rows Pearson reads
PairsOf(t) ==
    LET rows == SortDate(SelectSeq(sent_feed, LAMBDA r : r.ticker = t))
        kept == SelectSeq(rows, LAMBDA r : /\ ~IsNull(LaggedAt(t, r.trade_date))
                                          /\ ~IsNull(r.ret))
    IN [i \in DOMAIN kept |->
          [sentiment_lagged |-> LaggedAt(t, kept[i].trade_date), ret |-> kept[i].ret]]
ExpectedCorr(t) ==
    IF Cardinality(PairRows(t)) < MinPoints THEN Null ELSE Pearson(PairsOf(t))

\* C13: in both correlation tables a ticker's correlation is null when it
\* has fewer than 10 overlapping non-null (lagged sentiment, forward return)
\* pairs and is Pearson's r of the pairs when it has 10 or more; hence the
\* two tables agree on every ticker they both list.
C13_CorrelationThreshold ==
    /\ sent_pc = "done" =>
          \A k \in DOMAIN corr7 :
              corr7[k].correlation = ExpectedCorr(corr7[k].ticker)
    /\ \A k \in DOMAIN corr04 :
          corr04[k].correlation = ExpectedCorr(corr04[k].ticker)
    /\ sent_pc = "done" =>
          \A k \in DOMAIN corr7, j \in DOMAIN corr04 :
              corr7[k].ticker = corr04[j].ticker
                  => corr7[k].correlation = corr04[j].correlation

\* C15: after the lag step of page 7 every row's lagged sentiment is its own
\* ticker's sentiment L positions earlier in the ticker's chronological
\* order, null when that position is outside the ticker's series; the pairs
\* page 04 correlates for a ticker are exactly the ticker's rows with their
\* sentiment L positions earlier, where both are non-null.
C15_LagShiftWithinTicker ==
    /\ sent_pc = "lagged" =>
          /\ Len(sent_view) = Len(sent_feed)
          /\ \A i \in DOMAIN sent_view :
                sent_view[i].sentiment_lagged =
                    LaggedAt(sent_view[i].ticker, sent_view[i].trade_date)
    /\ \A k \in DOMAIN corr04 :
          /\ Len(corr04[k].valid) = Cardinality(PairRows(corr04[k].ticker))
          /\ \A i \in DOMAIN corr04[k].valid :
                /\ corr04[k].valid[i].ticker = corr04[k].ticker
                /\ corr04[k].valid[i].sentiment_lagged =
                      LaggedAt(corr04[k].ticker, corr04[k].valid[i].trade_date)

\* a non-zero lag on a frame of two tickers: the row L positions before a
\* row belongs to the other ticker and has a score, and the row's lagged
\* sentiment is null; another row has a lagged sentiment
C15_Witness ==
    /\ sent_pc = "lagged"
    /\ lag # 0
    /\ corr04 # <<>>
    /\ \E i \in DOMAIN sent_view :
          /\ i - lag \in DOMAIN sent_view
          /\ sent_view[i - lag].ticker # sent_view[i].ticker
          /\ ~IsNull(sent_view[i - lag].sentiment)
          /\ IsNull(sent_view[i].sentiment_lagged)
    /\ \E i \in DOMAIN sent_view : ~IsNull(sent_view[i].sentiment_lagged)

\* ========================================================================
\* build_equity_curve, the vectorised modes and the unknown mode
\* (pages/8_Research_Playground.py)
\* ========================================================================
MaxDays == 4

\* values of the mode argument: the two vectorised modes and two strings
\* that are no mode of the function
CallModes == {"all_days", "long_setup_only", "ALL_DAYS", "long_setup"}

\* the if / elif / else chain on mode
ModeBranch_Mut(m) ==
    IF m = "long_setup_only" THEN "long_setup_only"
    ELSE IF m = "long_setup_no_overlap" THEN "long_setup_no_overlap"
    ELSE "all_days"
ModeBranch(m) ==
    IF m = "all_days" THEN "all_days"
    ELSE IF m = "long_setup_only" THEN "long_setup_only"
    ELSE IF m = "long_setup_no_overlap" THEN "long_setup_no_overlap"
    ELSE "raise"

\* (tmp["core_signal_state"] == "LONG_SETUP").astype(int)
IsTradeOverlap_Inverted(state) == IF state = "LONG_SETUP" THEN 0 ELSE 1
IsTradeOverlap_Mut(state) == 1
IsTradeOverlap(state) == IF state = "LONG_SETUP" THEN 1 ELSE 0

\* the page is about to call build_equity_curve(df_t, ret_col, mode, horizon)
InitCurveModes ==
    /\ curve_pc = "rows"
    /\ mode \in CallModes
    /\ horizon = MaxH
    /\ first_dow = 0
    /\ df = <<>> /\ cooldown = 0 /\ cd_seen = <<>>
    /\ is_trade = <<>> /\ step = <<>> /\ equity = <<>>
    /\ S0Idle /\ PageIdle /\ PlayIdle /\ ExtIdle

\* one more row of df_t
CurveFeedRow(state, rraw) ==
    /\ curve_pc = "rows"
    /\ Len(df) < MaxDays
    /\ df' = Append(df, [trade_date |-> TradeDate(first_dow, Len(df)),
                         core_signal_state |-> state,
                         ret |-> rraw])
    /\ UNCHANGED <<curve_pc, mode, horizon, first_dow, cooldown, cd_seen,
                   is_trade, step, equity>>
    /\ UNCHANGED <<s0_vars, page_vars, play_vars, ext_vars>>

\* build_equity_curve on a non-empty df_t, for a mode that is not the
\* no-overlap one: the column assignments of the branch and the cumprod, or
\* the raise of the else branch
CurveVectorised ==
    /\ curve_pc = "rows"
    /\ Len(df) >= 1
    /\ ModeBranch(mode) # "long_setup_no_overlap"
    /\ LET r == [i \in DOMAIN df |-> FillNa0(df[i].ret)] IN
       IF ModeBranch(mode) = "all_days"
       THEN /\ is_trade' = [i \in DOMAIN df |-> 1]
            /\ step' = [i \in DOMAIN df |-> Mult(r[i])]
            /\ equity' = CumProd(step')
            /\ curve_pc' = "done"
       ELSE IF ModeBranch(mode) = "long_setup_only"
       THEN /\ is_trade' = [i \in DOMAIN df |-> IsTradeOverlap(df[i].core_signal_state)]
            /\ step' = [i \in DOMAIN df |-> Mult(r[i] * is_trade'[i])]
            /\ equity' = CumProd(step')
            /\ curve_pc' = "done"
       ELSE /\ curve_pc' = "raised"
            /\ UNCHANGED <<is_trade, step, equity>>
    /\ UNCHANGED <<mode, horizon, first_dow, df, cooldown, cd_seen>>
    /\ UNCHANGED <<s0_vars, page_vars, play_vars, ext_vars>>

NextCurveModes ==
    \/ \E state \in CurveStates, rraw \in CurveRets : CurveFeedRow(state, rraw)
    \/ CurveVectorised

SpecCurveModes == InitCurveModes /\ [][NextCurveModes]_vars

\* ------------------------------------------------------------------------
\* Claims on the vectorised modes
\* ------------------------------------------------------------------------
\* the product of (1 + forward_return_j) over the rows j of S, as the bag of
\* its factors other than 1.0 (a row without a forward return is a factor 1.0)
FactorOf(j) == Mult(FillNa0(df[j].ret))
ProductOver(S) ==
    LET ms == {FactorOf(j) : j \in S} \ {100}
    IN [m \in ms |-> Cardinality({j \in S : FactorOf(j) = m})]
TargetRowsUpTo(i) == {j \in 1..i : df[j].core_signal_state = "LONG_SETUP"}
SameBag(a, b) ==
    /\ DOMAIN a = DOMAIN b
    /\ \A m \in DOMAIN a : a[m] = b[m]

\* C16: in mode all_days the equity after row i is the product of
\* (1 + forward_return_j) over all rows j <= i; in mode long_setup_only it
\* is the product over the LONG_SETUP rows j <= i, and a row in another
\* state leaves the equity where it was (1.0 before the first row).
C16_VectorisedEquity ==
    (curve_pc = "done" /\ mode \in {"all_days", "long_setup_only"}) =>
        /\ Len(equity) = Len(df)
        /\ \A i \in DOMAIN df :
              /\ mode = "all_days" => SameBag(equity[i], ProductOver(1..i))
              /\ mode = "long_setup_only" =>
                    /\ SameBag(equity[i], ProductOver(TargetRowsUpTo(i)))
                    /\ df[i].core_signal_state # "LONG_SETUP" =>
                          SameBag(equity[i], IF i = 1 THEN One ELSE equity[i - 1])

\* long_setup_only on a series where a NEUTRAL row with a non-zero return
\* follows a LONG_SETUP row with a non-zero return
C16_Witness ==
    /\ curve_pc = "done"
    /\ mode = "long_setup_only"
    /\ \E i \in DOMAIN df :
          /\ i > 1
          /\ df[i].core_signal_state = "NEUTRAL"
          /\ FactorOf(i) # 100
          /\ df[i - 1].core_signal_state = "LONG_SETUP"
          /\ FactorOf(i - 1) # 100
          /\ ~SameBag(equity[i], One)

\* the modes the function has a branch for
KnownModes == {"all_days", "long_setup_only", "long_setup_no_overlap"}

\* C17: a call returns a curve exactly when its mode is one of the three
\* the function knows; with any other mode it raises and no is_trade, step
\* or equity column exists.
C17_UnknownModeRaises ==
    curve_pc \in {"done", "raised"} =>
        /\ curve_pc = "raised" <=> mode \notin KnownModes
        /\ curve_pc = "raised" => is_trade = <<>> /\ step = <<>> /\ equity = <<>>
        /\ curve_pc = "done" => Len(equity) = Len(df)

\* a call with the mode "ALL_DAYS" on a series of two rows has raised
C17_Witness == curve_pc = "raised" /\ mode = "ALL_DAYS" /\ Len(df) = 2

\* ========================================================================
\* Required columns of an input frame
\* (pages/2_Signal_by_Momentum_Reversion.py, pages/3_Ticker_Deep_Dive.py,
\*  extractors/stocks_extractor.py)
\* ========================================================================
\* page 2: required = {...}
Page2Required ==
    {"trade_date", "ticker", "signal_state", "signal_reason",
     "adj_close", "ma_100", "vola_z20d", "vola_not_top_20_252d",
     "fwd_return_5d", "fwd_return_10d", "fwd_return_20d",
     "regime_bucket_10", "price_zscore_20d"}

\* deep dive: columns of the signal history and of the price corridor
SigHistColumns == {"trade_date", "ticker", "core_signal_state", "core_score"}
PxColumns == {"trade_date", "ticker", "adj_close", "roll_min_200d", "roll_max_200d"}

\* extractor: the OHLCV fields of a yfinance frame, and rename_map
YfFields == {"Open", "High", "Low", "Close", "Adj Close", "Volume"}
rename_map ==
    [c \in YfFields |->
        CASE c = "Open" -> "open" [] c = "High" -> "high" [] c = "Low" -> "low"
          [] c = "Close" -> "close" [] c = "Adj Close" -> "adj_close"
          [] c = "Volume" -> "volume"]
keep_cols == {"ticker", "date", "open", "high", "low", "close", "adj_close", "volume"}

\* DataFrame.merge(right, on=on): a column of both frames that is no key
\* gets the suffixes _x and _y
MergeColumns(left, right, on) ==
    LET both == (left \cap right) \ on
    IN on \cup ((left \cup right) \ both)
          \cup {c \o "_x" : c \in both} \cup {c \o "_y" : c \in both}

\* the frames an operation may receive: any part of the expected columns
InitSchema ==
    /\ schema_pc = "called"
    /\ \/ /\ schema_op = "page2"
          /\ \E cols \in SUBSET Page2Required : schema_cols = <<cols>>
       \/ /\ schema_op = "deep_dive"
          /\ \E sig \in SUBSET SigHistColumns, px \in SUBSET PxColumns :
                /\ "trade_date" \in sig /\ "trade_date" \in px
                /\ schema_cols = <<sig, px>>
       \/ /\ schema_op = "download_prices"
          /\ \E cols \in SUBSET YfFields : schema_cols = <<cols>>
    /\ schema_out = {} /\ schema_filled = {}
    /\ CurveIdle /\ S0Idle /\ PageIdle /\ PlayIdle
    /\ PoolIdle /\ SentIdle /\ BucketIdle /\ JobIdle

\* page 2: missing = required - set(hist.columns); st.error and st.stop,
\* or the page goes on with hist
Page2Check ==
    /\ schema_pc = "called" /\ schema_op = "page2"
    /\ LET missing == Page2Required \ schema_cols[1] IN
       IF missing # {}
       THEN schema_pc' = "stopped" /\ schema_out' = {}
       ELSE schema_pc' = "continued" /\ schema_out' = schema_cols[1]
    /\ UNCHANGED <<schema_op, schema_cols, schema_filled>>
    /\ UNCHANGED <<curve_vars, s0_vars, page_vars, play_vars>>
    /\ UNCHANGED <<pool_vars, sent_vars, bucket_vars, job_vars>>

\* deep dive: merged = sig_hist.merge(px, on=["trade_date"], how="left"),
\* then the ticker column is created when merged has none
DeepDiveMerge ==
    /\ schema_pc = "called" /\ schema_op = "deep_dive"
    /\ LET merged == MergeColumns(schema_cols[1], schema_cols[2], {"trade_date"}) IN
       IF "ticker" \notin merged
       THEN /\ schema_out' = merged \cup {"ticker"}
            /\ schema_filled' = {[column |-> "ticker", value |-> "selected_ticker"]}
       ELSE /\ schema_out' = merged
            /\ schema_filled' = {}
    /\ schema_pc' = "continued"
    /\ UNCHANGED <<schema_op, schema_cols>>
    /\ UNCHANGED <<curve_vars, s0_vars, page_vars, play_vars>>
    /\ UNCHANGED <<pool_vars, sent_vars, bucket_vars, job_vars>>

\* extractor: ticker and date are set from the download, the fields are
\* renamed, every column of keep_cols the frame lacks is created with None,
\* and the frame is cut to keep_cols
DownloadPrices ==
    /\ schema_pc = "called" /\ schema_op = "download_prices"
    /\ LET renamed == {rename_map[c] : c \in schema_cols[1]} \cup {"ticker", "date"}
           absent == keep_cols \ renamed
       IN /\ schema_filled' = {[column |-> c, value |-> "None"] : c \in absent}
          /\ schema_out' = keep_cols
    /\ schema_pc' = "continued"
    /\ UNCHANGED <<schema_op, schema_cols>>
    /\ UNCHANGED <<curve_vars, s0_vars, page_vars, play_vars>>
    /\ UNCHANGED <<pool_vars, sent_vars, bucket_vars, job_vars>>

NextSchema == Page2Check \/ DeepDiveMerge \/ DownloadPrices

SpecSchema == InitSchema /\ [][NextSchema]_vars

\* ------------------------------------------------------------------------
\* Claim on the required columns
\* ------------------------------------------------------------------------
\* the required columns the received frame lacks
MissingRequired ==
    CASE schema_op = "page2" -> Page2Required \ schema_cols[1]
      [] schema_op = "deep_dive" ->
            {"ticker"} \ MergeColumns(schema_cols[1], schema_cols[2], {"trade_date"})
      [] schema_op = "download_prices" ->
            {rename_map[c] : c \in YfFields \ schema_cols[1]}
      [] OTHER -> {}

\* C18: an operation that received a frame without one of its required
\* columns has stopped with an error; it has not gone on, and it has created
\* no column of its own in place of the missing one.
C18_MissingColumnIsFatal ==
    (schema_pc \in {"stopped", "continued"} /\ MissingRequired # {}) =>
        /\ schema_pc = "stopped"
        /\ schema_filled = {}

\* ========================================================================
\* Bucket assignment (the rule of the mart behind regime_bucket_10 and
\* zscore_bucket_10; decile rank of a day's value among the observations of
\* the ticker's history window that ends on that day)
\* ========================================================================
MaxBkDays == 4
MaxW == 3

\* one observation of a ticker: its price percentile and its price
BkPercentiles == {1, 2}
BkPrices == {1, 2}
BkObs == [price_percentile : BkPercentiles, price : BkPrices]

\* at least W observations exist on the n-th day
HasHistory_Mut(n, W) == n > W
HasHistory(n, W) == n >= W

\* the days of the history window of day t: every day up to t (cap = 0) or
\* the cap latest of them
Window_Mut(series, t, cap) ==
    {s \in DOMAIN series : s <= t + 1 /\ (cap = 0 \/ s > t - cap)}
Window(series, t, cap) ==
    {s \in DOMAIN series : s <= t /\ (cap = 0 \/ s > t - cap)}

\* equal-frequency decile of the value ranked r-th of m
Decile_Mut(r, m) == (r * 10) \div m
Decile(r, m) == ((r - 1) * 10) \div m + 1

\* rank of day t among the days of `days`: values below it, and equal values
\* of earlier days, come first; lower[s] / equal[s] compare day s with day t
RankOf_Mut(days, t, lower, equal) ==
    1 + Cardinality({s \in days : ~lower[s] /\ ~equal[s]})
      + Cardinality({s \in days : s < t /\ equal[s]})
RankOf(days, t, lower, equal) ==
    1 + Cardinality({s \in days : lower[s]})
      + Cardinality({s \in days : s < t /\ equal[s]})

\* rolling statistics of day s: number of days, sum and sum of squares of
\* the prices of its window
RollStats(series, s, cap) ==
    LET w == Window(series, s, cap)
    IN [n |-> Cardinality(w),
        sum |-> SumFn([k \in w |-> series[k].price]),
        sumsq |-> SumFn([k \in w |-> series[k].price * series[k].price])]

\* z-score of day s, (price - mean) / std = dev / sqrt(var) with
\* dev = n * price - sum and var = n * sumsq - sum^2; null when var = 0
ZScore(series, s, cap) ==
    LET st == RollStats(series, s, cap)
        var == st.n * st.sumsq - st.sum * st.sum
    IN IF var = 0 THEN Null
       ELSE Num([dev |-> st.n * series[s].price - st.sum, var |-> var])

\* a / b < c / d for a, c >= 0 and b, d > 0, by whole parts and then the
\* reciprocals of the remaining fractions (no product is formed)
RECURSIVE PosLess(_, _, _, _)
PosLess(a, b, c, d) ==
    IF a \div b # c \div d THEN a \div b < c \div d
    ELSE IF c % d = 0 THEN FALSE
    ELSE IF a % b = 0 THEN TRUE
    ELSE PosLess(d, c % d, b, a % b)

\* sign(z) * z^2 = sign(dev) * dev^2 / var of the two z-scores compared
ZLess(a, b) ==
    LET za == Val(a)
        zb == Val(b)
    IN IF za.dev < 0 /\ zb.dev >= 0 THEN TRUE
       ELSE IF za.dev >= 0 /\ zb.dev < 0 THEN FALSE
       ELSE IF za.dev >= 0
            THEN PosLess(za.dev * za.dev, za.var, zb.dev * zb.dev, zb.var)
            ELSE PosLess(zb.dev * zb.dev, zb.var, za.dev * za.dev, za.var)
ZEqual(a, b) == ~ZLess(a, b) /\ ~ZLess(b, a)

\* decile of the price percentile of day s among the days w
DecileIn(series, w, s) ==
    LET v == series[s].price_percentile
    IN Decile(RankOf(w, s,
                     [k \in w |-> series[k].price_percentile < v],
                     [k \in w |-> series[k].price_percentile = v]),
              Cardinality(w))

regime_bucket(series, t, W, cap) ==
    IF ~HasHistory(t, W) THEN Null
    ELSE Num(DecileIn(series, Window(series, t, cap), t))

\* z holds the z-score of every day of the series
zscore_bucket(z, series, t, W, cap) ==
    IF ~HasHistory(t, W) \/ IsNull(z[t]) THEN Null
    ELSE LET w == {s \in Window(series, t, cap) : ~IsNull(z[s])}
         IN Num(Decile(RankOf(w, t,
                              [s \in w |-> ZLess(z[s], z[t])],
                              [s \in w |-> ZEqual(z[s], z[t])]),
                       Cardinality(w)))

\* the bucket assignments of a ticker's series
AssignBuckets(series, W, cap) ==
    LET z == [s \in DOMAIN series |-> ZScore(series, s, cap)]
    IN [t \in DOMAIN series |->
          [regime_bucket |-> regime_bucket(series, t, W, cap),
           zscore_bucket |-> zscore_bucket(z, series, t, W, cap)]]

InitBuckets ==
    /\ bk_pc = "run"
    /\ bk_W \in 1..MaxW
    /\ bk_cap \in {0} \cup bk_W..MaxW
    /\ bk_series = <<>> /\ bk_out = <<>>
    /\ CurveIdle /\ S0Idle /\ PageIdle /\ PlayIdle
    /\ PoolIdle /\ SentIdle /\ SchemaIdle /\ JobIdle

\* a new day is observed and the assignments are computed
BkAppend(obs) ==
    /\ bk_pc = "run"
    /\ Len(bk_series) < MaxBkDays
    /\ bk_series' = Append(bk_series, obs)
    /\ bk_out' = AssignBuckets(bk_series', bk_W, bk_cap)
    /\ UNCHANGED <<bk_pc, bk_W, bk_cap>>
    /\ UNCHANGED <<curve_vars, s0_vars, page_vars, play_vars>>
    /\ UNCHANGED <<pool_vars, sent_vars, schema_vars, job_vars>>

\* a day's observation is revised and the assignments are computed again
BkRevise(k, obs) ==
    /\ bk_pc = "run"
    /\ k \in DOMAIN bk_series
    /\ bk_series[k] # obs
    /\ bk_series' = [bk_series EXCEPT ![k] = obs]
    /\ bk_out' = AssignBuckets(bk_series', bk_W, bk_cap)
    /\ UNCHANGED <<bk_pc, bk_W, bk_cap>>
    /\ UNCHANGED <<curve_vars, s0_vars, page_vars, play_vars>>
    /\ UNCHANGED <<pool_vars, sent_vars, schema_vars, job_vars>>

\* the latest day is withdrawn and the assignments are computed again
BkRemove ==
    /\ bk_pc = "run"
    /\ bk_series # <<>>
    /\ bk_series' = SubSeq(bk_series, 1, Len(bk_series) - 1)
    /\ bk_out' = AssignBuckets(bk_series', bk_W, bk_cap)
    /\ UNCHANGED <<bk_pc, bk_W, bk_cap>>
    /\ UNCHANGED <<curve_vars, s0_vars, page_vars, play_vars>>
    /\ UNCHANGED <<pool_vars, sent_vars, schema_vars, job_vars>>

NextBuckets ==
    \/ \E obs \in BkObs : BkAppend(obs)
    \/ \E k \in 1..MaxBkDays, obs \in BkObs : BkRevise(k, obs)
    \/ BkRemove

SpecBuckets == InitBuckets /\ [][NextBuckets]_vars

\* ------------------------------------------------------------------------
\* Claims on the bucket assignment
\* ------------------------------------------------------------------------
Deciles == {Num(b) : b \in 1..10}

\* C19: every day has an assignment; from the W-th observation of the
\* ticker on, regime_bucket is one of 1..10 (and zscore_bucket is one of
\* 1..10 or null); before the W-th observation both buckets are null.
C19_WarmUp ==
    /\ Len(bk_out) = Len(bk_series)
    /\ \A t \in DOMAIN bk_out :
          /\ t >= bk_W =>
                /\ bk_out[t].regime_bucket \in Deciles
                /\ bk_out[t].zscore_bucket \in Deciles \cup {Null}
          /\ t < bk_W =>
                /\ IsNull(bk_out[t].regime_bucket)
                /\ IsNull(bk_out[t].zscore_bucket)

\* W = 3 on four days: the first two days have no bucket, the third and the
\* fourth have a regime bucket, and one of them has a z-score bucket
C19_Witness ==
    /\ bk_W = 3
    /\ Len(bk_out) = 4
    /\ IsNull(bk_out[2].regime_bucket)
    /\ bk_out[3].regime_bucket \in Deciles
    /\ bk_out[4].regime_bucket \in Deciles
    /\ \E t \in {3, 4} : bk_out[t].zscore_bucket \in Deciles

\* C20: when observations are appended, revised or withdrawn, the buckets
\* of every day t whose observations up to and including t are the same
\* before and after are the same before and after.
C20_NoLookAhead ==
    [][\A t \in DOMAIN bk_out \cap DOMAIN bk_out' :
          (\A s \in 1..t : bk_series'[s] = bk_series[s]) => bk_out'[t] = bk_out[t]]_vars

\* a day with both buckets assigned is followed by a day whose price
\* percentile is below every earlier one and whose price is below that day's
C20_Witness ==
    /\ Len(bk_series) >= 3
    /\ \E t \in 2..(Len(bk_series) - 1) :
          /\ bk_out[t].regime_bucket \in Deciles
          /\ bk_out[t].zscore_bucket \in Deciles
          /\ bk_series[t + 1].price < bk_series[t].price
          /\ \A s \in 1..t :
                bk_series[t + 1].price_percentile < bk_series[s].price_percentile

BkDecileAt(t, s) ==
    IF s = t THEN Val(bk_out[t].regime_bucket)
    ELSE DecileIn(bk_series, Window(bk_series, t, bk_cap), s)

ExampleW == 10
ExampleDays == 20
ExamplePrice(k) == 100 + (50 * (k - 1)) \div (ExampleDays - 1)

\* the price percentile rises with the price
ExampleObs(k) == [price_percentile |-> ExamplePrice(k), price |-> ExamplePrice(k)]

InitExample ==
    /\ bk_pc = "example"
    /\ bk_W = ExampleW
    /\ bk_cap \in {0} \cup ExampleW..ExampleDays
    /\ bk_series = <<>> /\ bk_out = <<>>
    /\ CurveIdle /\ S0Idle /\ PageIdle /\ PlayIdle
    /\ PoolIdle /\ SentIdle /\ SchemaIdle /\ JobIdle

\* the next day of the example is observed and the assignments are computed
ExampleDay ==
    /\ bk_pc = "example"
    /\ Len(bk_series) < ExampleDays
    /\ bk_series' = Append(bk_series, ExampleObs(Len(bk_series) + 1))
    /\ bk_out' = AssignBuckets(bk_series', bk_W, bk_cap)
    /\ UNCHANGED <<bk_pc, bk_W, bk_cap>>
    /\ UNCHANGED <<curve_vars, s0_vars, page_vars, play_vars>>
    /\ UNCHANGED <<pool_vars, sent_vars, schema_vars, job_vars>>

NextExample == ExampleDay

SpecExample == InitExample /\ [][NextExample]_vars

\* the day of the lowest price among the days `days`
LowestDay(days) ==
    CHOOSE s \in days : \A k \in days : bk_series[s].price <= bk_series[k].price

BucketedDays == {t \in DOMAIN bk_out : bk_out[t].regime_bucket \in Deciles}

LaggedRows(t) ==
    {i \in DOMAIN sent_view :
        sent_view[i].ticker = t /\ ~IsNull(sent_view[i].sentiment_lagged)}
BucketCount(t, b) ==
    Cardinality({i \in LaggedRows(t) : sent_view[i].sentiment_bucket_10 = Num(b)})

\* C23: after the lag and the bucketing, per ticker, every row with a
\* non-null lagged sentiment has a bucket in 1..10; a lower lagged value,
\* or an equal value on an earlier date, never has the higher bucket; and
\* the bins are equal-frequency (ties are split between bins by date): the
\* numbers of rows of any two of the ten buckets differ by at most one.
C23_SentimentDeciles ==
    sent_pc = "lagged" =>
        \A t \in {sent_view[i].ticker : i \in DOMAIN sent_view} :
            /\ \A i \in LaggedRows(t) : sent_view[i].sentiment_bucket_10 \in Deciles
            /\ \A i, j \in LaggedRows(t) :
                  \/ Val(sent_view[i].sentiment_lagged) < Val(sent_view[j].sentiment_lagged)
                  \/ /\ sent_view[i].sentiment_lagged = sent_view[j].sentiment_lagged
                     /\ sent_view[i].trade_date < sent_view[j].trade_date
                  => Val(sent_view[i].sentiment_bucket_10)
                        <= Val(sent_view[j].sentiment_bucket_10)
            /\ \A b1, b2 \in 1..10 : BucketCount(t, b1) <= BucketCount(t, b2) + 1

\* ========================================================================
\* The curves of the selected tickers
\* (pages/8_Research_Playground.py, "Build equity curves per ticker")
\* ========================================================================
MaxPlotRows == 3

PlotRets == {Null, Num(1)}
PlotRow == [ticker : Tickers, core_signal_state : CurveStates, ret : PlotRets]

\* st.multiselect: the selected tickers in the order of the selection
Selections == {<<"AAPL">>, <<"MSFT">>, <<"AAPL", "MSFT">>, <<"MSFT", "AAPL">>}

\* `cooldown = 0` before the loop: the counter is local to the call, whatever
\* value an earlier call left in its own counter
CooldownAtCall_Mut(left) == left
CooldownAtCall(left) == 0

\* the for loop of the no-overlap branch over the rows of the frame
RECURSIVE NoOverlapLoop(_, _, _)
NoOverlapLoop(rows, h, left) ==
    IF rows = <<>>
    THEN [is_trade |-> <<>>, step |-> <<>>, cooldown |-> CooldownAtCall(left)]
    ELSE LET p == NoOverlapLoop(SubSeq(rows, 1, Len(rows) - 1), h, left)
             row == rows[Len(rows)]
         IN IF Blocked(p.cooldown)
            THEN [is_trade |-> Append(p.is_trade, 0),
                  step |-> Append(p.step, Mult(0)),
                  cooldown |-> Decremented(p.cooldown)]
            ELSE IF OpensTrade(row.core_signal_state, FillNa0(row.ret))
                 THEN [is_trade |-> Append(p.is_trade, 1),
                       step |-> Append(p.step, Mult(FillNa0(row.ret))),
                       cooldown |-> CooldownOnOpen(h)]
                 ELSE [is_trade |-> Append(p.is_trade, 0),
                       step |-> Append(p.step, Mult(0)),
                       cooldown |-> p.cooldown]

\* build_equity_curve(df_t, ret_col, "long_setup_no_overlap", horizon)
build_equity_curve(rows, h, left) ==
    LET loop == NoOverlapLoop(rows, h, left)
    IN [is_trade |-> loop.is_trade, step |-> loop.step,
        equity |-> CumProd(loop.step), cooldown |-> loop.cooldown]

\* events[events["ticker"] == t]
RowsOfTicker(rows, t) == SelectSeq(rows, LAMBDA r : r.ticker = t)

InitPlot ==
    /\ plot_pc = "loop"
    /\ plot_h \in 0..MaxH
    /\ plot_events \in SeqsUpTo(PlotRow, MaxPlotRows)
    /\ plot_todo \in Selections
    /\ plot_cooldown = 0
    /\ plot_curves = <<>>
    /\ CurveIdle /\ S0Idle /\ PageIdle /\ PlayIdle
    /\ PoolIdle /\ SentIdle /\ SchemaIdle /\ BucketIdle /\ PipeIdle

\* one iteration of `for t in selected_tickers`
PlotTicker ==
    /\ plot_pc = "loop"
    /\ plot_todo # <<>>
    /\ LET t == Head(plot_todo)
           df_t == RowsOfTicker(plot_events, t)
           curve == build_equity_curve(df_t, plot_h, plot_cooldown)
       IN IF df_t = <<>>
          THEN UNCHANGED <<plot_cooldown, plot_curves>>
          ELSE /\ plot_cooldown' = curve.cooldown
               /\ plot_curves' = Append(plot_curves,
                                        [ticker |-> t, is_trade |-> curve.is_trade,
                                         step |-> curve.step, equity |-> curve.equity])
    /\ plot_todo' = Tail(plot_todo)
    /\ UNCHANGED <<plot_pc, plot_h, plot_events>>
    /\ UNCHANGED <<curve_vars, s0_vars, page_vars, play_vars>>
    /\ UNCHANGED <<pool_vars, sent_vars, schema_vars, bucket_vars, pipe_vars>>

\* the loop is over
PlotDone ==
    /\ plot_pc = "loop"
    /\ plot_todo = <<>>
    /\ plot_pc' = "done"
    /\ UNCHANGED <<plot_h, plot_events, plot_todo, plot_cooldown, plot_curves>>
    /\ UNCHANGED <<curve_vars, s0_vars, page_vars, play_vars>>
    /\ UNCHANGED <<pool_vars, sent_vars, schema_vars, bucket_vars, pipe_vars>>

NextPlot == PlotTicker \/ PlotDone

SpecPlot == InitPlot /\ [][NextPlot]_vars

\* ------------------------------------------------------------------------
\* Claims on the curves of the selected tickers
\* ------------------------------------------------------------------------
\* the curve of a ticker simulated alone: its own rows, a fresh counter
AloneCurve(t) == build_equity_curve(RowsOfTicker(plot_events, t), plot_h, 0)

\* C24: whatever the order of the selected tickers and the interleaving of
\* their rows in the events frame, the curve built for a ticker (is_trade,
\* step and equity) is the one obtained by simulating that ticker alone;
\* in particular the first LONG_SETUP row of every ticker opens a position,
\* whatever cooldown the ticker processed before it was left in.
C24_PerTickerIndependence ==
    \A k \in DOMAIN plot_curves :
        LET c == plot_curves[k]
            own == RowsOfTicker(plot_events, c.ticker)
            alone == AloneCurve(c.ticker)
        IN /\ c.is_trade = alone.is_trade
           /\ c.step = alone.step
           /\ c.equity = alone.equity
           /\ \A i \in DOMAIN own :
                 /\ own[i].core_signal_state = "LONG_SETUP"
                 /\ \A j \in 1..(i - 1) : own[j].core_signal_state # "LONG_SETUP"
                 => c.is_trade[i] = 1

\* two tickers with interleaved rows: the ticker processed first ends on an
\* opened position with a horizon of 1 or more, and the first row of the
\* ticker processed second, a LONG_SETUP row, opens a position
C24_Witness ==
    /\ plot_pc = "done"
    /\ plot_h >= 1
    /\ Len(plot_curves) = 2
    /\ Len(plot_events) = 3
    /\ plot_events[1].ticker = plot_events[3].ticker
    /\ plot_events[2].ticker # plot_events[1].ticker
    /\ plot_curves[1].is_trade[Len(plot_curves[1].is_trade)] = 1
    /\ plot_curves[2].is_trade[1] = 1

\* ------------------------------------------------------------------------
\* The no-overlap curve on a frame that starts on a Monday, with forward
\* returns that are null, 0.01 or 0.02
\* ------------------------------------------------------------------------
CooldownRets == {Null, Num(1), Num(2)}

InitCooldown == InitNoOverlap /\ first_dow = 0

NextCooldown ==
    \/ \E state \in CurveStates, rraw \in CooldownRets : NoOverlapRow(state, rraw)
    \/ CurveReturn

SpecCooldown == InitCooldown /\ [][NextCooldown]_vars

\* ------------------------------------------------------------------------
\* Claims on the cooldown of the no-overlap curve
\* ------------------------------------------------------------------------
\* the cooldown counter after row i was processed
CooldownAfter(i) == IF i < Len(cd_seen) THEN cd_seen[i + 1] ELSE cooldown

\* C25: under long_setup_no_overlap with horizon H the cooldown counter is 0
\* when the first row is reached and within 0..H at every row; a row that
\* opens a position sets it to H, any other row decreases it by exactly 1
\* while it is above 0 and leaves it at 0 otherwise; a row reached with the
\* counter above 0 opens nothing and has multiplier 1, so that the equity
\* after it equals the equity before it.
C25_CooldownMachine ==
    mode = "long_setup_no_overlap" =>
        /\ cooldown \in 0..horizon
        /\ (IF cd_seen = <<>> THEN cooldown ELSE cd_seen[1]) = 0
        /\ \A i \in Rows :
              /\ cd_seen[i] \in 0..horizon
              /\ Opens(i) => CooldownAfter(i) = horizon
              /\ ~Opens(i) =>
                    CooldownAfter(i) = IF cd_seen[i] > 0 THEN cd_seen[i] - 1 ELSE 0
              /\ cd_seen[i] > 0 =>
                    /\ ~Opens(i)
                    /\ step[i] = Mult(0)
                    /\ curve_pc = "done" => i > 1 /\ equity[i] = equity[i - 1]

\* horizon 3: the first row opens on a return of 0.01, the three rows after
\* it are reached with the counter at 3, 2 and 1, the fifth with 0
C25_Witness ==
    /\ curve_pc = "done" /\ mode = "long_setup_no_overlap" /\ horizon = 3
    /\ Len(df) = 5
    /\ Opens(1) /\ df[1].ret = Num(1)
    /\ cd_seen = <<0, 3, 2, 1, 0>>
    /\ equity[4] = equity[1]

\* C26: after a position opens at row i under long_setup_no_overlap with
\* horizon H, the H rows i+1..i+H are locked (reached with the counter above
\* 0, none opens a position, a LONG_SETUP row exactly H rows after the open
\* included), and row i+H+1 is not locked: it is reached with the counter at
\* 0 and opens the next position if its state is LONG_SETUP.
C26_LockOutBoundary ==
    mode = "long_setup_no_overlap" =>
        \A i \in Rows :
            Opens(i) =>
                /\ \A j \in Rows :
                      (i + 1 <= j /\ j <= i + horizon) => cd_seen[j] > 0 /\ ~Opens(j)
                /\ i + horizon + 1 \in Rows =>
                      /\ cd_seen[i + horizon + 1] = 0
                      /\ df[i + horizon + 1].core_signal_state = "LONG_SETUP"
                            => Opens(i + horizon + 1)

\* horizon 2: the first row opens, the LONG_SETUP row two rows later does
\* not, the LONG_SETUP row three rows later opens the next position
C26_Witness ==
    /\ mode = "long_setup_no_overlap" /\ horizon = 2
    /\ Len(df) >= 4
    /\ Opens(1)
    /\ df[3].core_signal_state = "LONG_SETUP" /\ ~Opens(3)
    /\ df[4].core_signal_state = "LONG_SETUP" /\ Opens(4)

\* the rows that open a position, from the states and the horizon alone: a
\* LONG_SETUP row opens when none of the h rows before it did
RECURSIVE TradesOf(_, _)
TradesOf(states, h) ==
    IF states = <<>> THEN <<>>
    ELSE LET n == Len(states)
             front == TradesOf(SubSeq(states, 1, n - 1), h)
         IN Append(front,
                   IF /\ states[n] = "LONG_SETUP"
                      /\ \A j \in 1..(n - 1) : j >= n - h => front[j] = 0
                   THEN 1 ELSE 0)

\* C27: under long_setup_no_overlap the is_trade column is a function of
\* the state sequence and the horizon alone (whatever the forward returns
\* are); a LONG_SETUP row reached with the counter at 0 whose forward return
\* is null opens a position with multiplier 1 and sets the counter to H.
C27_OpensIgnoreReturns ==
    mode = "long_setup_no_overlap" =>
        /\ is_trade = TradesOf([i \in DOMAIN df |-> df[i].core_signal_state], horizon)
        /\ \A i \in Rows :
              /\ df[i].core_signal_state = "LONG_SETUP"
              /\ cd_seen[i] = 0
              /\ IsNull(df[i].ret)
              => /\ Opens(i)
                 /\ step[i] = Mult(0)
                 /\ CooldownAfter(i) = horizon

\* horizon 2: a LONG_SETUP row without a forward return opens a position,
\* the LONG_SETUP row after it is locked, and an earlier row opened on a
\* return of 0.02
C27_Witness ==
    /\ curve_pc = "done" /\ mode = "long_setup_no_overlap" /\ horizon = 2
    /\ Len(df) = 5
    /\ Opens(1) /\ df[1].ret = Num(2)
    /\ Opens(4) /\ IsNull(df[4].ret)
    /\ df[5].core_signal_state = "LONG_SETUP" /\ ~Opens(5)

\* the is_trade column long_setup_only gives the rows of the same frame
OverlapTrades == [i \in DOMAIN df |-> IsTradeOverlap(df[i].core_signal_state)]
TargetRows == {i \in DOMAIN df : df[i].core_signal_state = "LONG_SETUP"}

\* C28: on the same frame every row that long_setup_no_overlap compounds
\* is compounded by long_setup_only, so the number of trades of the former
\* is at most that of the latter, and the earliest LONG_SETUP row of the
\* frame is compounded by both.
C28_NoOverlapWithinOverlap ==
    mode = "long_setup_no_overlap" =>
        /\ \A i \in Rows : Opens(i) => OverlapTrades[i] = 1
        /\ SumSeq(is_trade) <= SumSeq(OverlapTrades)
        /\ \A i \in TargetRows :
              (\A j \in TargetRows : i <= j) => Opens(i) /\ OverlapTrades[i] = 1

\* horizon 1: the first LONG_SETUP row is not the first row of the frame;
\* long_setup_only compounds three rows, long_setup_no_overlap two of them
C28_Witness ==
    /\ curve_pc = "done" /\ mode = "long_setup_no_overlap" /\ horizon = 1
    /\ df[1].core_signal_state = "NEUTRAL"
    /\ SumSeq(OverlapTrades) = 3
    /\ SumSeq(is_trade) = 2

\* ------------------------------------------------------------------------
\* Claims on the blocks of the shaded chart
\* ------------------------------------------------------------------------
\* the number of rows whose state differs from the previous row's state
StateChanges(col) == Cardinality({i \in DOMAIN col : i > 1 /\ col[i] # col[i - 1]})

\* C29: when the shaded chart is drawn, the dates of the rows flagged
\* is_entry are exactly the start dates of the blocks of state MOM or REV
\* (one flagged row per such block); the blocks come in date order, each
\* block ends at the start date of the next one, adjacent blocks have
\* different states, and there is one block more than there are state
\* changes.
C29_EntriesAreBlockStarts ==
    blocks # <<>> =>
        LET dates == HistDates(hist)
            col == [i \in DOMAIN hist |-> hist[i].signal_state]
            starts == {k \in DOMAIN blocks : blocks[k].state \in {"MOM", "REV"}}
        IN /\ {dates[i] : i \in {j \in DOMAIN is_entry : is_entry[j]}}
                 = {blocks[k].start : k \in starts}
           /\ Len(entries) = Cardinality(starts)
           /\ \A k \in 1..(Len(blocks) - 1) :
                 /\ blocks[k].start < blocks[k + 1].start
                 /\ blocks[k].end = blocks[k + 1].start
                 /\ blocks[k].state # blocks[k + 1].state
           /\ Len(blocks) = StateChanges(col) + 1

\* MOM, NEU (filled in for a missing state), MOM, MOM, REV, REV: four
\* blocks, three of them flagged as entries
C29_Witness ==
    /\ Len(blocks) = 4
    /\ Len(entries) = 3
    /\ Len(hist) = 6
    /\ s1_feed[2].signal_state = NA
    /\ blocks[1].state = "MOM" /\ blocks[2].state = "NEU"
    /\ blocks[3].state = "MOM" /\ blocks[4].state = "REV"

\* ========================================================================
\* The daily job (orchestration/orchestration/assets.py, definitions.py)
\* ========================================================================
Extractors == {"news_csv", "fng_csv", "prices_csv"}
Layers == <<"raw_bq_loaded", "stg_cleanse", "int_enrich", "core_build", "mart_present">>
Commands == {Layers[k] : k \in DOMAIN Layers}
Assets == Extractors \cup Commands

\* the upstream assets of an asset: the deps= of its @asset decorator
Deps_Mut(a) ==
    IF a \in Extractors THEN {}
    ELSE IF a = "raw_bq_loaded" THEN {"news_csv", "prices_csv"}
    ELSE {Layers[k] : k \in {j \in DOMAIN Layers : j < Len(Layers) /\ Layers[j + 1] = a}}
Deps(a) ==
    IF a \in Extractors THEN {}
    ELSE IF a = "raw_bq_loaded" THEN {"news_csv", "prices_csv", "fng_csv"}
    ELSE {Layers[k] : k \in {j \in DOMAIN Layers : j < Len(Layers) /\ Layers[j + 1] = a}}

\* what an extractor call does: it returns a path, returns nothing, or raises
ExtractorResults == {"path", "nothing", "raises"}
\* exit codes of `meltano run` / `dbt run`
ExitCodes == {0, 1, 2}
NoCode == -1

\* `if not csv_path: return ""`, else `return str(csv_path)`
ReturnedPath(res) == IF res = "nothing" THEN "" ELSE "data.csv"

\* `if result.returncode != 0: raise RuntimeError(...)`
CommandFails(rc) == rc # 0

InitPipeline ==
    /\ pipe_status = [a \in Assets |-> "pending"]
    /\ pipe_out = [a \in Extractors |-> "none"]
    /\ pipe_rc = [a \in Commands |-> NoCode]
    /\ pipe_started = <<>>
    /\ CurveIdle /\ S0Idle /\ PageIdle /\ PlayIdle
    /\ PoolIdle /\ SentIdle /\ SchemaIdle /\ BucketIdle /\ PlotIdle

\* the executor starts the step of an asset whose upstream steps succeeded
StartStep(a) ==
    /\ pipe_status[a] = "pending"
    /\ \A d \in Deps(a) : pipe_status[d] = "ok"
    /\ pipe_status' = [pipe_status EXCEPT ![a] = "running"]
    /\ pipe_started' = Append(pipe_started, a)
    /\ UNCHANGED <<pipe_out, pipe_rc>>
    /\ UNCHANGED <<curve_vars, s0_vars, page_vars, play_vars>>
    /\ UNCHANGED <<pool_vars, sent_vars, schema_vars, bucket_vars, plot_vars>>

\* the executor skips the step of an asset with a failed or skipped upstream
SkipStep(a) ==
    /\ pipe_status[a] = "pending"
    /\ \E d \in Deps(a) : pipe_status[d] \in {"failed", "skipped"}
    /\ pipe_status' = [pipe_status EXCEPT ![a] = "skipped"]
    /\ UNCHANGED <<pipe_out, pipe_rc, pipe_started>>
    /\ UNCHANGED <<curve_vars, s0_vars, page_vars, play_vars>>
    /\ UNCHANGED <<pool_vars, sent_vars, schema_vars, bucket_vars, plot_vars>>

\* news_csv / fng_csv / prices_csv: the extractor call comes back
ExtractorReturns(a, res) ==
    /\ a \in Extractors
    /\ pipe_status[a] = "running"
    /\ IF res = "raises"
       THEN /\ pipe_status' = [pipe_status EXCEPT ![a] = "failed"]
            /\ UNCHANGED pipe_out
       ELSE /\ pipe_status' = [pipe_status EXCEPT ![a] = "ok"]
            /\ pipe_out' = [pipe_out EXCEPT ![a] = ReturnedPath(res)]
    /\ UNCHANGED <<pipe_rc, pipe_started>>
    /\ UNCHANGED <<curve_vars, s0_vars, page_vars, play_vars>>
    /\ UNCHANGED <<pool_vars, sent_vars, schema_vars, bucket_vars, plot_vars>>

\* raw_bq_loaded / stg_cleanse / ... : subprocess.run comes back with rc
CommandExits(a, rc) ==
    /\ a \in Commands
    /\ pipe_status[a] = "running"
    /\ pipe_rc' = [pipe_rc EXCEPT ![a] = rc]
    /\ pipe_status' = [pipe_status EXCEPT ![a] = IF CommandFails(rc) THEN "failed" ELSE "ok"]
    /\ UNCHANGED <<pipe_out, pipe_started>>
    /\ UNCHANGED <<curve_vars, s0_vars, page_vars, play_vars>>
    /\ UNCHANGED <<pool_vars, sent_vars, schema_vars, bucket_vars, plot_vars>>

StartSome == \E a \in Assets : StartStep(a)

NextPipeline ==
    \/ StartSome
    \/ \E a \in Assets : SkipStep(a)
    \/ \E a \in Extractors, res \in ExtractorResults : ExtractorReturns(a, res)
    \/ \E a \in Commands, rc \in ExitCodes : CommandExits(a, rc)

\* the executor starts every step that is ready
SpecPipeline == InitPipeline /\ [][NextPipeline]_vars /\ WF_vars(StartSome)

\* ------------------------------------------------------------------------
\* Claims on the daily job
\* ------------------------------------------------------------------------
Started(a) == \E i \in DOMAIN pipe_started : pipe_started[i] = a
StartIndex(a) == CHOOSE i \in DOMAIN pipe_started : pipe_started[i] = a

PipelineOrder ==
    /\ Started("raw_bq_loaded") => \A e \in Extractors : pipe_status[e] = "ok"
    /\ \A k \in 1..(Len(Layers) - 1) :
          /\ Started(Layers[k + 1]) =>
                /\ pipe_status[Layers[k]] = "ok"
                /\ pipe_rc[Layers[k]] = 0
                /\ StartIndex(Layers[k]) < StartIndex(Layers[k + 1])
          /\ pipe_rc[Layers[k]] \notin {NoCode, 0} =>
                /\ pipe_status[Layers[k]] = "failed"
                /\ \A j \in (k + 1)..Len(Layers) : ~Started(Layers[j])

ExtractorsFinished == \A e \in Extractors : pipe_status[e] = "ok"

\* C30: in a run of the daily job raw_bq_loaded starts only after news_csv,
\* prices_csv and fng_csv have finished; stg_cleanse, int_enrich, core_build
\* and mart_present start in that order, each only after the command of its
\* predecessor exited with code 0; after a non-zero exit the asset has
\* failed and no later layer starts; and once the three extractors have
\* finished, with a path or with the empty path, the load is started.
C30_PipelineOrder == []PipelineOrder /\ (ExtractorsFinished ~> Started("raw_bq_loaded"))

\* the whole chain ran although the price extractor, started last of the
\* three, returned no data
C30_Witness ==
    /\ pipe_status["mart_present"] = "ok"
    /\ pipe_out["prices_csv"] = ""
    /\ pipe_out["news_csv"] = "data.csv"
    /\ pipe_started[3] = "prices_csv"

====
